---- MODULE Spec2Model ----
(***************************************************************************)
(* Model of the TrueSpec OpenAPI differential engine                       *)
(* (src/apps/api/reports/index.js): getOperations, getRequiredParams,      *)
(* compareSchema, diffSpecs, formatMarkdown, truncateText, serializeItems, *)
(* parseSpecInput, getAdminToken, ensureTable and the request handler.     *)
(* Spec is one POST from the call of diffSpecs on, over many documents;    *)
(* Service is the handler, request after request, over few documents.      *)
(* Concurrent is the handlers of several requests interleaved at their     *)
(* awaits.                                                                 *)
(*                                                                         *)
(* Representation.                                                         *)
(*  - A JS string that the code builds by concatenation is a sequence of   *)
(*    string chunks whose concatenation is the JS string.                  *)
(*  - A schema node is an object with identity: a number of Nodes; Heap    *)
(*    gives its own properties.  0 is undefined/null, ProtoMember is a     *)
(*    member inherited from Object.prototype (a function).                 *)
(*  - A JS value read by a truthiness or === test is one of the strings    *)
(*    JsTrue, JsFalse, JsUndefined, JsStrFalse (the non-empty string       *)
(*    "false").                                                            *)
(***************************************************************************)
EXTENDS Integers, Sequences, FiniteSets, TLC

\* ------------------------------------------------------------------------
\* Bounds of the input space
\* ------------------------------------------------------------------------
\* number of schema nodes in the heap (nodes beyond the catalogue are {})
NumNodes == 32

\* ------------------------------------------------------------------------
\* Generic sequence helpers
\* ------------------------------------------------------------------------
Range(s) == {s[i] : i \in DOMAIN s}

\* Array.prototype.join on chunk sequences: parts separated by sep
RECURSIVE Join(_, _)
Join(parts, sep) ==
  IF parts = <<>> THEN <<>>
  ELSE IF Len(parts) = 1 THEN Head(parts)
  ELSE Head(parts) \o <<sep>> \o Join(Tail(parts), sep)

\* insertion sort of s by a rank function (Array.prototype.sort on strings:
\* rank[x] is the position of x in code-unit order)
RECURSIVE InsertSorted(_, _, _)
InsertSorted(x, s, rank) ==
  IF s = <<>> THEN <<x>>
  ELSE IF rank[x] < rank[Head(s)] THEN <<x>> \o s
  ELSE <<Head(s)>> \o InsertSorted(x, Tail(s), rank)

RECURSIVE SortBy(_, _)
SortBy(s, rank) ==
  IF s = <<>> THEN <<>> ELSE InsertSorted(Head(s), SortBy(Tail(s), rank), rank)

\* new Set(array) / Map keys: first occurrence order, duplicates coalesce
RECURSIVE Dedup(_)
Dedup(s) ==
  IF s = <<>> THEN <<>>
  ELSE LET r == Dedup(SubSeq(s, 1, Len(s) - 1))
           x == s[Len(s)]
       IN IF x \in Range(r) THEN r ELSE Append(r, x)

\* ------------------------------------------------------------------------
\* JS values
\* ------------------------------------------------------------------------
JsTrue == "true"
JsFalse == "false"
JsUndefined == "undefined"
JsStrFalse == "'false'"
JsValues == {JsTrue, JsFalse, JsUndefined, JsStrFalse}

\* Boolean(value)
BooleanOf(v) == v \notin {JsFalse, JsUndefined}

\* value === true
StrictTrue(v) == v = JsTrue

\* ------------------------------------------------------------------------
\* Schema nodes
\* ------------------------------------------------------------------------
Nodes == 1..NumNodes
Undefined == 0
ProtoMember == 0 - 1

\* names every object inherits from Object.prototype
ObjectPrototypeKeys == {"constructor", "toString", "valueOf", "hasOwnProperty"}

NoType == [tag |-> "none", val |-> <<>>]
TStr(t) == [tag |-> "string", val |-> <<t>>]
TArr(ts) == [tag |-> "array", val |-> ts]

EStr(s) == [t |-> "str", v |-> s]
ENum(s) == [t |-> "num", v |-> s]

\* the schema {} : every keyword absent
EmptySchema ==
  [type |-> NoType, nullable |-> JsUndefined, hasEnum |-> FALSE, enum |-> <<>>,
   required |-> <<>>, hasProps |-> FALSE, props |-> <<>>, items |-> Undefined,
   allOf |-> <<>>, oneOf |-> <<>>, anyOf |-> <<>>,
   ref |-> "", format |-> "", title |-> ""]

Obj(props) == [EmptySchema EXCEPT !.type = TStr("object"), !.hasProps = TRUE, !.props = props]

\* The schema nodes of the input documents.  Both documents of a diff take
\* their schemas from this heap; the visited sets of the two sides are
\* separate, so sharing a node between the sides is the diff(S, S) case.
Heap ==
  [n \in Nodes |->
    CASE n = 1 -> [EmptySchema EXCEPT !.type = TStr("string")]
      [] n = 2 -> [EmptySchema EXCEPT !.type = TStr("string"), !.nullable = JsTrue]
      [] n = 3 -> [EmptySchema EXCEPT !.type = TStr("integer"), !.format = "int64"]
      [] n = 4 -> [EmptySchema EXCEPT !.type = TArr(<<"string", "null">>)]
      \* Pet, Pet without name, Pet with other types and required names
      [] n = 5 -> Obj(<< <<"id", 3>>, <<"name", 1>> >>)
      [] n = 6 -> Obj(<< <<"id", 3>> >>)
      [] n = 7 -> [Obj(<< <<"id", 1>>, <<"name", 2>> >>) EXCEPT !.required = <<"id", "name">>]
      \* cycle through properties
      [] n = 8 -> Obj(<< <<"id", 3>>, <<"child", 8>> >>)
      \* arrays, one of them a cycle through items
      [] n = 9 -> [EmptySchema EXCEPT !.type = TStr("array"), !.items = 5]
      [] n = 10 -> [EmptySchema EXCEPT !.items = 10, !.hasProps = TRUE,
                                      !.props = << <<"name", 1>> >>]
      \* allOf: a member that is the node itself, and an acyclic merge
      [] n = 11 -> [Obj(<< <<"id", 1>> >>) EXCEPT !.allOf = <<11>>]
      [] n = 12 -> [EmptySchema EXCEPT !.allOf = <<6, 13>>, !.hasProps = TRUE,
                                      !.props = << <<"name", 2>> >>]
      [] n = 13 -> [EmptySchema EXCEPT !.type = TStr("string"), !.hasEnum = TRUE,
                                      !.enum = <<EStr("a"), EStr("b"), EStr("c")>>]
      [] n = 14 -> [EmptySchema EXCEPT !.type = TStr("string"), !.hasEnum = TRUE,
                                      !.enum = <<EStr("b"), EStr("a"), ENum("1")>>]
      [] n = 15 -> [EmptySchema EXCEPT !.oneOf = <<1, 3>>]
      [] n = 16 -> [EmptySchema EXCEPT !.anyOf = <<2>>, !.oneOf = <<17>>]
      [] n = 17 -> [EmptySchema EXCEPT !.ref = "#/components/schemas/Pet"]
      \* a property named like a member of Object.prototype
      [] n = 18 -> Obj(<< <<"id", 3>>, <<"constructor", 2>> >>)
      \* objects whose type is a list, in two orders
      [] n = 19 -> [Obj(<< <<"id", 3>>, <<"name", 1>> >>)
                      EXCEPT !.type = TArr(<<"string", "object">>)]
      [] n = 20 -> [Obj(<< <<"id", 3>> >>)
                      EXCEPT !.type = TArr(<<"object", "null", "string">>)]
      \* Owner: nested objects without a shared node
      [] n = 21 -> Obj(<< <<"pet", 5>>, <<"backup", 22>>, <<"tag", 2>> >>)
      [] n = 22 -> Obj(<< <<"id", 23>> >>)
      [] n = 23 -> [EmptySchema EXCEPT !.type = TStr("integer"), !.format = "int64"]
      [] n = 24 -> Obj(<< <<"pet", 6>> >>)
      \* Owner whose two properties are one shared node, in two key orders
      [] n = 25 -> Obj(<< <<"backup", 6>>, <<"pet", 6>> >>)
      [] n = 26 -> Obj(<< <<"pet", 6>>, <<"backup", 6>> >>)
      \* Pet whose two properties are one shared node
      [] n = 27 -> Obj(<< <<"id", 1>>, <<"name", 1>> >>)
      \* an enum without values, and an enum of another type
      [] n = 28 -> [EmptySchema EXCEPT !.type = TStr("string"), !.hasEnum = TRUE]
      [] n = 29 -> [EmptySchema EXCEPT !.type = TStr("integer"), !.hasEnum = TRUE,
                                      !.enum = <<ENum("1"), ENum("1")>>]
      [] n = 30 -> [EmptySchema EXCEPT !.type = TStr("integer"), !.hasEnum = TRUE,
                                      !.enum = <<ENum("1")>>]
      \* schemas with items and properties: a nullable one, and one with
      \* other items, other properties and a required name
      [] n = 31 -> [EmptySchema EXCEPT !.nullable = JsTrue, !.items = 5, !.hasProps = TRUE,
                                      !.props = << <<"old", 1>>, <<"owner", 21>> >>]
      [] n = 32 -> [EmptySchema EXCEPT !.items = 6, !.hasProps = TRUE,
                                      !.props = << <<"owner", 24>>, <<"new", 1>> >>,
                                      !.required = <<"owner">>]
      [] OTHER -> EmptySchema]

\* the own keywords of a value; anything that is not a node of the heap
\* (undefined, a function inherited from Object.prototype) has none
Schema(n) == IF n \in Nodes THEN Heap[n] ELSE EmptySchema

\* isRecord(value)
isRecord(n) == n \in Nodes

\* ------------------------------------------------------------------------
\* Schema helpers
\* ------------------------------------------------------------------------
\* code-unit order of the type names, used by Array.prototype.sort
TypeNames == <<"array", "boolean", "integer", "null", "number", "object", "string">>
TypeRank == [t \in Range(TypeNames) |-> CHOOSE i \in DOMAIN TypeNames : TypeNames[i] = t]

\* JSON.stringify of an enum value: a string is quoted, a number is not
JsonStringify(value) ==
  IF value.t = "str" THEN <<"\"", value.v, "\"">> ELSE <<value.v>>

\* code-unit order of the serialized enum values of the heap ('"' < '1')
EnumOrder == <<JsonStringify(EStr("a")), JsonStringify(EStr("b")),
               JsonStringify(EStr("c")), JsonStringify(ENum("1"))>>
EnumRank == [e \in Range(EnumOrder) |-> CHOOSE i \in DOMAIN EnumOrder : EnumOrder[i] = e]

\* getEnumValues: null (has = FALSE) or the Set of the serialized values
getEnumValues(n) ==
  IF ~isRecord(n) \/ ~Schema(n).hasEnum THEN [has |-> FALSE, values |-> <<>>]
  ELSE [has |-> TRUE,
        values |-> Dedup([i \in DOMAIN Schema(n).enum |-> JsonStringify(Schema(n).enum[i])])]

\* getRequiredFields: the Set of the names in schema.required
getRequiredFields(n) ==
  IF ~isRecord(n) THEN <<>> ELSE Dedup(Schema(n).required)

\* normalizeTypes: an array as it is, a string wrapped, anything else []
normalizeTypes(rawType) ==
  CASE rawType.tag = "array" -> rawType.val
    [] rawType.tag = "string" -> <<rawType.val[1]>>
    [] OTHER -> <<>>

\* getTypeInfo without the sort of the non-null types
getTypeInfoUnsorted(n) ==
  IF ~isRecord(n) THEN [type |-> <<>>, nullable |-> FALSE]
  ELSE LET rawTypes == normalizeTypes(Schema(n).type)
           nullable == StrictTrue(Schema(n).nullable) \/ "null" \in Range(rawTypes)
           nonNullTypes == SelectSeq(rawTypes, LAMBDA t : t # "null")
       IN IF Len(nonNullTypes) = 0 THEN [type |-> <<>>, nullable |-> nullable]
          ELSE [type |-> Join([i \in DOMAIN nonNullTypes |-> <<nonNullTypes[i]>>], "|"),
                nullable |-> nullable]

\* getTypeInfo: type is the sorted non-null types joined by "|" (the empty
\* sequence stands for null, both are falsy), nullable the nullability
getTypeInfo(n) ==
  IF ~isRecord(n) THEN [type |-> <<>>, nullable |-> FALSE]
  ELSE LET rawTypes == normalizeTypes(Schema(n).type)
           nullable == StrictTrue(Schema(n).nullable) \/ "null" \in Range(rawTypes)
           nonNullTypes == SelectSeq(rawTypes, LAMBDA t : t # "null")
       IN IF Len(nonNullTypes) = 0 THEN [type |-> <<>>, nullable |-> nullable]
          ELSE [type |-> Join([i \in DOMAIN nonNullTypes |->
                                 <<SortBy(nonNullTypes, TypeRank)[i]>>], "|"),
                nullable |-> nullable]

\* own value of a key in an ordered property map, 0 when the key is absent
OwnProperty(props, key) ==
  IF \E i \in DOMAIN props : props[i][1] = key
  THEN props[CHOOSE i \in DOMAIN props : props[i][1] = key][2]
  ELSE Undefined

\* properties[key] on an object built from {} : an own value, else the
\* member inherited from Object.prototype, else undefined
GetProperty(props, key) ==
  IF OwnProperty(props, key) # Undefined THEN OwnProperty(props, key)
  ELSE IF key \in ObjectPrototypeKeys THEN ProtoMember
  ELSE Undefined

\* properties[key] = value : a known key keeps its place, a new one is last
SetProperty(props, key, value) ==
  IF \E i \in DOMAIN props : props[i][1] = key
  THEN [i \in DOMAIN props |-> IF props[i][1] = key THEN <<key, value>> ELSE props[i]]
  ELSE Append(props, <<key, value>>)

\* Object.assign(target, source)
RECURSIVE ObjectAssign(_, _)
ObjectAssign(target, source) ==
  IF source = <<>> THEN target
  ELSE ObjectAssign(SetProperty(target, Head(source)[1], Head(source)[2]), Tail(source))

Overflow == [overflow |-> TRUE, isNull |-> TRUE, properties |-> <<>>]

\* getObjectShape: allOf members merged first (recursively), then the own
\* properties; null when no property results.  The recursion through allOf
\* has no guard: active is the set of the nodes whose getObjectShape call is
\* on the call stack, and a call for one of them never ends, the stack
\* overflows (RangeError: Maximum call stack size exceeded)
RECURSIVE getObjectShapeAt(_, _)
RECURSIVE MergeAllOf(_, _, _)
MergeAllOf(entries, properties, active) ==
  IF entries = <<>> THEN [overflow |-> FALSE, isNull |-> FALSE, properties |-> properties]
  ELSE IF ~isRecord(Head(entries)) THEN MergeAllOf(Tail(entries), properties, active)
  ELSE LET shape == getObjectShapeAt(Head(entries), active)
       IN IF shape.overflow THEN Overflow
          ELSE IF shape.isNull THEN MergeAllOf(Tail(entries), properties, active)
          ELSE MergeAllOf(Tail(entries), ObjectAssign(properties, shape.properties), active)

getObjectShapeAt(n, active) ==
  IF n \in active THEN Overflow
  ELSE IF ~isRecord(n) THEN [overflow |-> FALSE, isNull |-> TRUE, properties |-> <<>>]
  ELSE LET merged == MergeAllOf(Schema(n).allOf, <<>>, active \cup {n})
       IN IF merged.overflow THEN Overflow
          ELSE LET own == IF Schema(n).hasProps
                          THEN SelectSeq(Schema(n).props, LAMBDA e : isRecord(e[2]))
                          ELSE <<>>
                   properties == ObjectAssign(merged.properties, own)
               IN [overflow |-> FALSE, isNull |-> Len(properties) = 0,
                   properties |-> properties]

getObjectShape(n) == getObjectShapeAt(n, {})

\* getSchemaContext
getSchemaContext(schemaPath) ==
  IF schemaPath # <<>> /\ schemaPath[1] = "request." THEN "request"
  ELSE IF schemaPath # <<>> /\ schemaPath[1] = "response." THEN "response"
  ELSE "other"

\* getSchemaAlternatives: the record entries of oneOf, then those of anyOf
getSchemaAlternatives(n) ==
  SelectSeq(Schema(n).oneOf, isRecord) \o SelectSeq(Schema(n).anyOf, isRecord)

\* getSchemaSignature
getSchemaSignature(n) ==
  IF isRecord(n) /\ Schema(n).ref # "" THEN <<"ref:", Schema(n).ref>>
  ELSE LET info == getTypeInfo(n)
           typeValue == IF info.type # <<>> THEN info.type ELSE <<"unknown">>
           nullable == IF info.nullable THEN <<"|nullable">> ELSE <<>>
           formatPart == IF Schema(n).format # "" THEN <<"|format:", Schema(n).format>> ELSE <<>>
           titlePart == IF Schema(n).title # "" THEN <<"|title:", Schema(n).title>> ELSE <<>>
       IN <<"type:">> \o typeValue \o nullable \o formatPart \o titlePart

\* ------------------------------------------------------------------------
\* The helpers are pure functions of the schema value: their results over
\* every value a walk can meet (undefined, an inherited member, a node)
\* ------------------------------------------------------------------------
Values == ProtoMember..NumNodes

TypeInfo == [n \in Values |-> getTypeInfo(n)]
ObjectShape == [n \in Values |-> getObjectShape(n)]
EnumValues == [n \in Values |-> getEnumValues(n)]
RequiredFields == [n \in Values |-> getRequiredFields(n)]
SchemaAlternatives == [n \in Values |-> getSchemaAlternatives(n)]
SchemaSignature == [n \in Values |-> getSchemaSignature(n)]
SchemaItems == [n \in Values |-> IF isRecord(Schema(n).items) THEN Schema(n).items ELSE Undefined]

\* ------------------------------------------------------------------------
\* The walk.  A walk state st is the sink and the two visited sets the code
\* passes along, with a history of it:
\*   items      the sink (Finding records, in push order)
\*   vb, vh     visitedBase, visitedHead of the current root invocation
\*   threw      an exception left the walk (it propagates out of diffSpecs)
\*   calls      history: one record per compareSchema invocation, in call
\*              order (parent 0 = invoked by diffSpecs)
\*   src        history: src[i] is the invocation that pushed items[i]
\*              (0 = diffSpecs itself)
\* ------------------------------------------------------------------------
EmptyWalk == [items |-> <<>>, vb |-> {}, vh |-> {}, threw |-> FALSE,
              calls |-> <<>>, src |-> <<>>]

Finding(severity, code, message, ref) ==
  [severity |-> severity, code |-> code, message |-> message,
   operation |-> [path |-> ref.path, method |-> ref.method]]

\* addItem that puts the finding first in the sink
addItemFirst(st, severity, code, message, ref, cid) ==
  [st EXCEPT !.items = <<Finding(severity, code, message, ref)>> \o @,
             !.src = <<cid>> \o @]

\* addItem, pushed by invocation cid
addItem(st, severity, code, message, ref, cid) ==
  [st EXCEPT !.items = Append(@, Finding(severity, code, message, ref)),
             !.src = Append(@, cid)]

\* new Set(alternatives.map(getSchemaSignature))
UnionSet(alternatives) ==
  Dedup([i \in DOMAIN alternatives |-> SchemaSignature[alternatives[i]]])

UnionRemoved(st, removed, schemaPath, ref, cid) ==
  IF Len(removed) > 0
  THEN addItem(st, "breaking", "schema-union-removed",
               <<"Removed union variant at ">> \o schemaPath \o <<" (">>
                 \o Join(removed, ", ") \o <<")">>, ref, cid)
  ELSE st

UnionAdded(st, added, severity, schemaPath, ref, cid) ==
  IF Len(added) > 0
  THEN addItem(st, severity, "schema-union-added",
               <<"Added union variant at ">> \o schemaPath \o <<" (">>
                 \o Join(added, ", ") \o <<")">>, ref, cid)
  ELSE st

\* the two findings of the union step, from the signature sets
UnionFindings(st, baseSet, headSet, severity, schemaPath, ref, cid) ==
  UnionAdded(
    UnionRemoved(st, SelectSeq(baseSet, LAMBDA v : v \notin Range(headSet)),
                 schemaPath, ref, cid),
    SelectSeq(headSet, LAMBDA v : v \notin Range(baseSet)),
    severity, schemaPath, ref, cid)

\* the severity CompareUnions gives an added variant, depending on the
\* context (warning on a request path)
CompareUnionsByContext(st, b, h, schemaPath, ref, cid) ==
  IF Len(SchemaAlternatives[b]) > 0 \/ Len(SchemaAlternatives[h]) > 0
  THEN UnionFindings(st, UnionSet(SchemaAlternatives[b]), UnionSet(SchemaAlternatives[h]),
                     IF getSchemaContext(schemaPath) = "request" THEN "warning" ELSE "info",
                     schemaPath, ref, cid)
  ELSE st

\* the findings of step 3 (unions) of compareSchema
CompareUnions(st, b, h, schemaPath, ref, cid) ==
  IF Len(SchemaAlternatives[b]) > 0 \/ Len(SchemaAlternatives[h]) > 0
  THEN UnionFindings(st, UnionSet(SchemaAlternatives[b]), UnionSet(SchemaAlternatives[h]),
                     IF getSchemaContext(schemaPath) = "request" THEN "info" ELSE "info",
                     schemaPath, ref, cid)
  ELSE st

\* baseValues / headValues: [...enum].sort(), [] for a schema without enum
EnumSorted(enum) == IF enum.has THEN SortBy(enum.values, EnumRank) ELSE <<>>

\* values.filter((value) => !other?.has(value))
EnumWithout(values, other) ==
  SelectSeq(values, LAMBDA v : ~(other.has /\ v \in Range(other.values)))

\* EnumDetails with the added values listed first
EnumDetailsAddedFirst(removedValues, addedValues) ==
  (IF Len(addedValues) > 0
   THEN << <<"added: ">> \o Join(addedValues, ", ") >> ELSE <<>>)
  \o (IF Len(removedValues) > 0
      THEN << <<"removed: ">> \o Join(removedValues, ", ") >> ELSE <<>>)

\* details, then suffix
EnumDetails(removedValues, addedValues) ==
  (IF Len(removedValues) > 0
   THEN << <<"removed: ">> \o Join(removedValues, ", ") >> ELSE <<>>)
  \o (IF Len(addedValues) > 0
      THEN << <<"added: ">> \o Join(addedValues, ", ") >> ELSE <<>>)

EnumSuffix(details) ==
  IF Len(details) > 0 THEN <<" (">> \o Join(details, "; ") \o <<")">> ELSE <<>>

EnumFindings(st, baseEnum, headEnum, removedValues, addedValues, schemaPath, ref, cid) ==
  IF (baseEnum.has \/ headEnum.has) /\ (Len(removedValues) > 0 \/ Len(addedValues) > 0)
  THEN addItem(st, "breaking", "schema-enum-changed",
               <<"Enum changed at ">> \o schemaPath
                 \o EnumSuffix(EnumDetails(removedValues, addedValues)), ref, cid)
  ELSE st

\* the finding of step 4 (enums) of compareSchema
CompareEnums(st, b, h, schemaPath, ref, cid) ==
  EnumFindings(st, EnumValues[b], EnumValues[h],
               EnumWithout(EnumSorted(EnumValues[b]), EnumValues[h]),
               EnumWithout(EnumSorted(EnumValues[h]), EnumValues[b]),
               schemaPath, ref, cid)

\* the schema-required-added findings of step 6
RECURSIVE AddRequired(_, _, _, _, _, _)
AddRequired(st, headRequired, baseRequired, schemaPath, ref, cid) ==
  IF headRequired = <<>> THEN st
  ELSE AddRequired(
         IF Head(headRequired) \in Range(baseRequired) THEN st
         ELSE addItem(st, IF getSchemaContext(schemaPath) = "request" THEN "warning" ELSE "info",
                      "schema-required-added",
                      <<"New required field ">> \o schemaPath \o <<".", Head(headRequired)>>,
                      ref, cid),
         Tail(headRequired), baseRequired, schemaPath, ref, cid)

\* AddedFields without the test of the context: an added field is reported
\* on every path
RECURSIVE AddedFieldsAnyContext(_, _, _, _, _, _)
AddedFieldsAnyContext(st, headEntries, baseProperties, schemaPath, ref, cid) ==
  IF headEntries = <<>> THEN st
  ELSE AddedFieldsAnyContext(
         IF GetProperty(baseProperties, Head(headEntries)[1]) # Undefined THEN st
         ELSE addItem(st, "info", "schema-field-added",
                      <<"Added field ">> \o schemaPath \o <<".", Head(headEntries)[1]>>,
                      ref, cid),
         Tail(headEntries), baseProperties, schemaPath, ref, cid)

\* the schema-field-added findings of step 6
RECURSIVE AddedFields(_, _, _, _, _, _)
AddedFields(st, headEntries, baseProperties, schemaPath, ref, cid) ==
  IF headEntries = <<>> THEN st
  ELSE AddedFields(
         IF GetProperty(baseProperties, Head(headEntries)[1]) # Undefined THEN st
         ELSE IF getSchemaContext(schemaPath) = "response"
         THEN addItem(st, "info", "schema-field-added",
                      <<"Added field ">> \o schemaPath \o <<".", Head(headEntries)[1]>>,
                      ref, cid)
         ELSE st,
         Tail(headEntries), baseProperties, schemaPath, ref, cid)

\* the two early returns of compareSchema do not happen
Entered(st, b, h) ==
  b # Undefined /\ h # Undefined /\ b \notin st.vb /\ h \notin st.vh

\* history of the invocation, and visitedBase.add, visitedHead.add
LogCall(st, b, h, schemaPath, parent, seg, entered) ==
  [st EXCEPT !.calls = Append(@, [parent |-> parent, seg |-> seg, base |-> b, head |-> h,
                                  path |-> schemaPath, entered |-> entered]),
             !.vb = IF entered THEN @ \cup {b} ELSE @,
             !.vh = IF entered THEN @ \cup {h} ELSE @]

\* the finding of step 1 (nullability) of compareSchema
CompareNullability(st, baseTypeInfo, headTypeInfo, schemaPath, ref, cid) ==
  IF baseTypeInfo.nullable /\ ~headTypeInfo.nullable
  THEN addItem(st, "breaking", "schema-nullable-removed",
               <<"Nullable removed at ">> \o schemaPath, ref, cid)
  ELSE IF ~baseTypeInfo.nullable /\ headTypeInfo.nullable
  THEN addItem(st, "info", "schema-nullable-added",
               <<"Nullable added at ">> \o schemaPath, ref, cid)
  ELSE st

RECURSIVE compareSchema(_, _, _, _, _, _, _)
RECURSIVE CompareFields(_, _, _, _, _, _)

\* the body of the loop over the base properties of step 6: a key the head
\* lacks is a removed field, any other key is compared recursively
CompareField(st, key, baseProp, headProp, schemaPath, ref, cid) ==
  IF headProp = Undefined
  THEN addItem(st, "breaking", "schema-field-removed",
               <<"Removed field ">> \o schemaPath \o <<".", key>>, ref, cid)
  ELSE compareSchema(st, baseProp, headProp, schemaPath \o <<".", key>>, ref, cid, key)

\* the loop over the base properties, in their order; an exception ends it
CompareFields(st, baseEntries, headProperties, schemaPath, ref, cid) ==
  IF baseEntries = <<>> \/ st.threw THEN st
  ELSE CompareFields(
         CompareField(st, Head(baseEntries)[1], Head(baseEntries)[2],
                      GetProperty(headProperties, Head(baseEntries)[1]), schemaPath, ref, cid),
         Tail(baseEntries), headProperties, schemaPath, ref, cid)

\* step 5 (items) of compareSchema
CompareItems(st, baseItems, headItems, baseType, headType, schemaPath, ref, cid) ==
  IF (baseType = <<"array">> \/ headType = <<"array">>
        \/ baseItems # Undefined \/ headItems # Undefined)
     /\ baseItems # Undefined /\ headItems # Undefined
  THEN compareSchema(st, baseItems, headItems, schemaPath \o <<"[]">>, ref, cid, "[]")
  ELSE st

\* the second loop of step 6, unless the first one threw
CompareAdded(st, headProperties, baseProperties, schemaPath, ref, cid) ==
  IF st.threw THEN st
  ELSE AddedFields(st, headProperties, baseProperties, schemaPath, ref, cid)

\* step 6 (shapes, required, fields) of compareSchema; getObjectShape may
\* overflow the stack, and the exception leaves compareSchema
CompareShapes(st, b, h, baseShape, headShape, schemaPath, ref, cid) ==
  IF st.threw THEN st
  ELSE IF baseShape.overflow \/ headShape.overflow THEN [st EXCEPT !.threw = TRUE]
  ELSE IF baseShape.isNull \/ headShape.isNull THEN st
  ELSE CompareAdded(
         CompareFields(
           AddRequired(st, RequiredFields[h], RequiredFields[b], schemaPath, ref, cid),
           baseShape.properties, headShape.properties, schemaPath, ref, cid),
         headShape.properties, baseShape.properties, schemaPath, ref, cid)

\* step 2 (type mismatch: one finding and return), else steps 3 to 6
CompareTypes(st, b, h, baseType, headType, schemaPath, ref, cid) ==
  IF baseType # <<>> /\ headType # <<>> /\ baseType # headType
  THEN addItem(st, "breaking", "schema-type-changed",
               <<"Type changed at ">> \o schemaPath \o <<" (">> \o baseType
                 \o <<" -> ">> \o headType \o <<")">>, ref, cid)
  ELSE CompareShapes(
         CompareItems(
           CompareEnums(CompareUnions(st, b, h, schemaPath, ref, cid),
                        b, h, schemaPath, ref, cid),
           SchemaItems[b], SchemaItems[h], baseType, headType, schemaPath, ref, cid),
         b, h, ObjectShape[b], ObjectShape[h], schemaPath, ref, cid)

\* compareSchema(baseSchema, headSchema, schemaPath, items, ref, visitedBase,
\* visitedHead), invoked by invocation parent for the path segment seg; the
\* invocation is number Len(st.calls) + 1
compareSchema(st, b, h, schemaPath, ref, parent, seg) ==
  IF st.threw THEN st
  ELSE IF ~Entered(st, b, h) THEN LogCall(st, b, h, schemaPath, parent, seg, FALSE)
  ELSE CompareTypes(
         CompareNullability(LogCall(st, b, h, schemaPath, parent, seg, TRUE),
                            TypeInfo[b], TypeInfo[h], schemaPath, ref, Len(st.calls) + 1),
         b, h, TypeInfo[b].type, TypeInfo[h].type, schemaPath, ref, Len(st.calls) + 1)

\* ------------------------------------------------------------------------
\* Documents
\*   spec      [paths : sequence of <<path, pathItem>>]         (key order)
\*   pathItem  [parameters : sequence of parameters,
\*              methods : sequence of <<method, operation>>]
\*   operation [parameters, hasBody, bodyRequired, bodyContent, responses]
\*             responses : sequence of <<status, content>>
\*   content   sequence of <<media type, schema node or 0>>
\* ------------------------------------------------------------------------
HTTP_METHODS == <<"get", "post", "put", "patch", "delete", "options", "head", "trace">>

\* normalizeMethod: method.toUpperCase()
normalizeMethod(method) ==
  CASE method = "get" -> "GET"
    [] method = "post" -> "POST"
    [] method = "put" -> "PUT"
    [] method = "patch" -> "PATCH"
    [] method = "delete" -> "DELETE"
    [] method = "options" -> "OPTIONS"
    [] method = "head" -> "HEAD"
    [] method = "trace" -> "TRACE"

HasKey(entries, key) == \E i \in DOMAIN entries : entries[i][1] = key
ValueOf(entries, key) == entries[CHOOSE i \in DOMAIN entries : entries[i][1] = key][2]
Keys(entries) == [i \in DOMAIN entries |-> entries[i][1]]

\* getOperations: the Map key -> {path, method, operation, pathItem}, in
\* insertion order: paths in document order, methods in HTTP_METHODS order
RECURSIVE getOperationsOf(_)
getOperationsOf(paths) ==
  IF paths = <<>> THEN <<>>
  ELSE LET path == Head(paths)[1]
           pathItem == Head(paths)[2]
           present == SelectSeq(HTTP_METHODS, LAMBDA m : HasKey(pathItem.methods, m))
       IN [i \in DOMAIN present |->
             [key |-> <<normalizeMethod(present[i]), " ", path>>,
              path |-> path,
              method |-> normalizeMethod(present[i]),
              operation |-> ValueOf(pathItem.methods, present[i]),
              pathItem |-> pathItem]]
          \o getOperationsOf(Tail(paths))

getOperations(spec) == getOperationsOf(spec.paths)

OpKeys(ops) == {ops[i].key : i \in DOMAIN ops}
OpAt(ops, key) == ops[CHOOSE i \in DOMAIN ops : ops[i].key = key]

\* getResponses: the Set of the status keys
getResponses(operation) == Keys(operation.responses)

\* media types whose name ends with "+json" or includes "json"
JsonLike == {"application/json", "application/vnd.api+json"}

\* extractSchema(content[key])
extractSchema(content, key) ==
  IF HasKey(content, key) THEN ValueOf(content, key) ELSE Undefined

\* getSchemaFromContent: application/json, else the first JSON-like media
\* type, else the first entry
getSchemaFromContent(content) ==
  LET jsonSchema == extractSchema(content, "application/json")
      jsonKeys == SelectSeq(Keys(content), LAMBDA k : k \in JsonLike)
      likeSchema == IF jsonKeys # <<>> THEN extractSchema(content, jsonKeys[1]) ELSE Undefined
  IN IF content = <<>> THEN Undefined
     ELSE IF isRecord(jsonSchema) THEN jsonSchema
     ELSE IF isRecord(likeSchema) THEN likeSchema
     ELSE IF isRecord(content[1][2]) THEN content[1][2]
     ELSE Undefined

\* getRequestSchema
getRequestSchema(operation) ==
  IF ~operation.hasBody THEN Undefined ELSE getSchemaFromContent(operation.bodyContent)

\* getResponseSchemas: the Map status -> schema of the responses that have one
getResponseSchemas(operation) ==
  LET all == [i \in DOMAIN operation.responses |->
                <<operation.responses[i][1], getSchemaFromContent(operation.responses[i][2])>>]
  IN SelectSeq(all, LAMBDA e : e[2] # Undefined)

\* getRequiredParams: the Set of the ids "<in>:<name>" of the parameters that
\* have a name and a location and are required or in the path
getRequiredParams(pathItem, operation) ==
  LET params == pathItem.parameters \o operation.parameters
      named == SelectSeq(params, LAMBDA q : q.name # "" /\ q.in # "")
      isRequired(q) == BooleanOf(q.required) \/ q.in = "path"
      required == SelectSeq(named, isRequired)
  IN Dedup([i \in DOMAIN required |-> <<required[i].in, ":", required[i].name>>])

\* isRequestBodyRequired
isRequestBodyRequired(operation) ==
  IF ~operation.hasBody THEN FALSE ELSE BooleanOf(operation.bodyRequired)

\* ------------------------------------------------------------------------
\* diffSpecs
\* ------------------------------------------------------------------------
\* the pushes of a forEach whose body only calls addItem
RECURSIVE PushAll(_, _)
PushAll(st, findings) ==
  IF findings = <<>> THEN st
  ELSE PushAll([st EXCEPT !.items = Append(@, Head(findings)), !.src = Append(@, 0)],
               Tail(findings))

\* RemovedOperations without the test that head lacks the key
RemovedOperationsUnfiltered(baseOps, headOps) ==
  [i \in DOMAIN baseOps |->
     Finding("breaking", "operation-removed",
             <<"Removed operation ">> \o baseOps[i].key, baseOps[i])]

\* first loop: the operations of base that head lacks
RemovedOperations(baseOps, headOps) ==
  LET gone == SelectSeq(baseOps, LAMBDA o : o.key \notin OpKeys(headOps))
  IN [i \in DOMAIN gone |->
        Finding("breaking", "operation-removed",
                <<"Removed operation ">> \o gone[i].key, gone[i])]

\* second loop: the operations of head that base lacks
AddedOperations(baseOps, headOps) ==
  LET new == SelectSeq(headOps, LAMBDA o : o.key \notin OpKeys(baseOps))
  IN [i \in DOMAIN new |->
        Finding("info", "operation-added",
                <<"Added operation ">> \o new[i].key, new[i])]

\* the response, parameter and request-body findings of one shared operation
OperationFindings(baseOp, headOp) ==
  LET key == baseOp.key
      baseResponses == getResponses(baseOp.operation)
      headResponses == getResponses(headOp.operation)
      goneResponses == SelectSeq(baseResponses, LAMBDA r : r \notin Range(headResponses))
      newResponses == SelectSeq(headResponses, LAMBDA r : r \notin Range(baseResponses))
      baseRequiredParams == getRequiredParams(baseOp.pathItem, baseOp.operation)
      headRequiredParams == getRequiredParams(headOp.pathItem, headOp.operation)
      newParams == SelectSeq(headRequiredParams, LAMBDA q : q \notin Range(baseRequiredParams))
  IN [i \in DOMAIN goneResponses |->
        Finding("breaking", "response-removed",
                <<"Removed response ", goneResponses[i], " for ">> \o key, baseOp)]
     \o [i \in DOMAIN newResponses |->
        Finding("info", "response-added",
                <<"Added response ", newResponses[i], " for ">> \o key, headOp)]
     \o [i \in DOMAIN newParams |->
        Finding("warning", "required-param-added",
                <<"New required parameter ">> \o newParams[i] \o <<" for ">> \o key, headOp)]
     \o (IF ~isRequestBodyRequired(baseOp.operation) /\ isRequestBodyRequired(headOp.operation)
         THEN <<Finding("warning", "request-body-required",
                        <<"Request body is now required for ">> \o key, headOp)>>
         ELSE <<>>)

\* CompareRoot with the visited sets of the root invocation before it
CompareRootSharedVisited(st, b, h, schemaPath, ref) ==
  compareSchema(st, b, h, schemaPath, ref, 0, "")

\* a root invocation of compareSchema: new WeakSet(), new WeakSet()
CompareRoot(st, b, h, schemaPath, ref) ==
  compareSchema([st EXCEPT !.vb = {}, !.vh = {}], b, h, schemaPath, ref, 0, "")

\* the response bodies of one shared operation, in base order
RECURSIVE CompareResponses(_, _, _, _)
CompareResponses(st, baseSchemas, headSchemas, headOp) ==
  IF baseSchemas = <<>> \/ st.threw THEN st
  ELSE CompareResponses(
         IF ~HasKey(headSchemas, Head(baseSchemas)[1]) THEN st
         ELSE CompareRoot(st, Head(baseSchemas)[2],
                          ValueOf(headSchemas, Head(baseSchemas)[1]),
                          <<"response.", Head(baseSchemas)[1], ".body">>, headOp),
         Tail(baseSchemas), headSchemas, headOp)

\* the request bodies of one shared operation
CompareRequest(st, baseRequestSchema, headRequestSchema, headOp) ==
  IF baseRequestSchema # Undefined /\ headRequestSchema # Undefined
  THEN CompareRoot(st, baseRequestSchema, headRequestSchema, <<"request.", "body">>, headOp)
  ELSE st

\* the body of the third loop for one shared operation
CompareOperation(st, baseOp, headOp) ==
  CompareResponses(
    CompareRequest(PushAll(st, OperationFindings(baseOp, headOp)),
                   getRequestSchema(baseOp.operation), getRequestSchema(headOp.operation),
                   headOp),
    getResponseSchemas(baseOp.operation), getResponseSchemas(headOp.operation), headOp)

\* third loop: the operations both documents have, in base order
RECURSIVE CompareOperations(_, _, _)
CompareOperations(st, baseOps, headOps) ==
  IF baseOps = <<>> \/ st.threw THEN st
  ELSE CompareOperations(
         IF Head(baseOps).key \notin OpKeys(headOps) THEN st
         ELSE CompareOperation(st, Head(baseOps), OpAt(headOps, Head(baseOps).key)),
         Tail(baseOps), headOps)

\* the three loops of diffSpecs over the two operation maps
WalkOperations(baseOps, headOps) ==
  CompareOperations(
    PushAll(PushAll(EmptyWalk, RemovedOperations(baseOps, headOps)),
            AddedOperations(baseOps, headOps)),
    baseOps, headOps)

\* the sink and the history when diffSpecs ends (by return or by exception)
Walk(baseSpec, headSpec) ==
  WalkOperations(getOperations(baseSpec), getOperations(headSpec))

CountSeverity(items, severity) ==
  Cardinality({i \in DOMAIN items : items[i].severity = severity})

\* Summary with a total that leaves the info findings out
SummaryWithoutInfo(items) ==
  [breaking |-> CountSeverity(items, "breaking"),
   warning |-> CountSeverity(items, "warning"),
   info |-> CountSeverity(items, "info"),
   total |-> CountSeverity(items, "breaking") + CountSeverity(items, "warning")]

\* the summary diffSpecs computes from the sink
Summary(items) ==
  [breaking |-> CountSeverity(items, "breaking"),
   warning |-> CountSeverity(items, "warning"),
   info |-> CountSeverity(items, "info"),
   total |-> Len(items)]

\* what a walk that ended in st gives the caller of diffSpecs
Report(st) ==
  [threw |-> st.threw,
   returned |-> IF st.threw THEN <<>>
                ELSE <<[summary |-> Summary(st.items), items |-> st.items]>>,
   sink |-> st.items, calls |-> st.calls, src |-> st.src]

\* diffSpecs: threw tells that an exception left the call; returned holds
\* the report {summary, items} when the call returned, and is empty when it
\* threw; sink, calls and src are the walk's sink and history
diffSpecs(baseSpec, headSpec) == Report(Walk(baseSpec, headSpec))

\* ------------------------------------------------------------------------
\* Writes.  The calls of a diff that change an object: sort (line 243, lines
\* 371-372), Object.assign (line 255) and properties[key] = value (line
\* 262).  An object is the value of a keyword of a schema of a document, or
\* an object made during the diff; a write tells the object written, the
\* object its content came from, and the content it has after the write.
\* ------------------------------------------------------------------------
Member(n, field) == [node |-> n, field |-> field]
Made == Member(Undefined, "")

Write(target, from, value) == [target |-> target, from |-> from, value |-> value]

\* getTypeInfo sorting the array of the schema
getTypeInfoWritesInPlace(n) ==
  IF ~isRecord(n) \/ TypeInfo[n].type = <<>> \/ Schema(n).type.tag # "array" THEN <<>>
  ELSE <<Write(Member(n, "type"), Member(n, "type"),
               TArr(SortBy(Schema(n).type.val, TypeRank)))>>

\* getTypeInfo, lines 235-243: sort() is called on nonNullTypes, the array
\* filter made (line 239) of rawTypes, itself the array map made of
\* schema.type or an array literal (lines 228-229)
getTypeInfoWrites(n) ==
  IF ~isRecord(n) \/ TypeInfo[n].type = <<>> THEN <<>>
  ELSE <<Write(Made, Member(n, "type"),
               TArr(SortBy(SelectSeq(normalizeTypes(Schema(n).type), LAMBDA t : t # "null"),
                           TypeRank)))>>

\* lines 343-344: getSchemaSignature calls getTypeInfo for an alternative
\* without $ref
RECURSIVE SignatureWrites(_)
SignatureWrites(alternatives) ==
  IF alternatives = <<>> THEN <<>>
  ELSE (IF Schema(Head(alternatives)).ref # "" THEN <<>>
        ELSE getTypeInfoWrites(Head(alternatives)))
       \o SignatureWrites(Tail(alternatives))

\* lines 371-372: sort() is called on the array spread from the Set that
\* getEnumValues made of the array map made of schema.enum (line 218)
EnumWrites(n) ==
  IF EnumValues[n].has
  THEN <<Write(Made, Member(n, "enum"), EnumSorted(EnumValues[n]))>>
  ELSE <<>>

\* lines 259-264: each own property that is a record is set on properties,
\* the object made at line 249
RECURSIVE SetWrites(_, _, _)
SetWrites(n, own, properties) ==
  IF own = <<>> THEN <<>>
  ELSE IF ~isRecord(Head(own)[2]) THEN SetWrites(n, Tail(own), properties)
  ELSE <<Write(Made, Member(n, "props"),
               SetProperty(properties, Head(own)[1], Head(own)[2]))>>
       \o SetWrites(n, Tail(own), SetProperty(properties, Head(own)[1], Head(own)[2]))

\* getObjectShape, lines 247-272, for a schema whose shape is computed
\* without overflow: the writes of the calls for the allOf members, each
\* followed by Object.assign onto properties of the object the member's
\* call made (lines 250-256), then the writes of the own properties
RECURSIVE getObjectShapeWrites(_)
RECURSIVE MergeWrites(_, _)
MergeWrites(entries, properties) ==
  IF entries = <<>> THEN <<>>
  ELSE IF ~isRecord(Head(entries)) THEN MergeWrites(Tail(entries), properties)
  ELSE getObjectShapeWrites(Head(entries))
       \o (IF ObjectShape[Head(entries)].isNull
           THEN MergeWrites(Tail(entries), properties)
           ELSE <<Write(Made, Made,
                        ObjectAssign(properties, ObjectShape[Head(entries)].properties))>>
                \o MergeWrites(Tail(entries),
                               ObjectAssign(properties, ObjectShape[Head(entries)].properties)))

getObjectShapeWrites(n) ==
  IF ~isRecord(n) \/ ObjectShape[n].overflow THEN <<>>
  ELSE MergeWrites(Schema(n).allOf, <<>>)
       \o SetWrites(n, IF Schema(n).hasProps THEN Schema(n).props ELSE <<>>,
                    MergeAllOf(Schema(n).allOf, <<>>, {n}).properties)

\* the writes of one invocation of compareSchema that passed the early
\* returns (lines 317-318, and after the return of line 337 lines 343-344,
\* 371-372, 402-403), the recursive invocations apart
CallWrites(b, h) ==
  getTypeInfoWrites(b) \o getTypeInfoWrites(h)
  \o (IF TypeInfo[b].type # <<>> /\ TypeInfo[h].type # <<>>
         /\ TypeInfo[b].type # TypeInfo[h].type
      THEN <<>>
      ELSE SignatureWrites(SchemaAlternatives[b]) \o SignatureWrites(SchemaAlternatives[h])
           \o EnumWrites(b) \o EnumWrites(h)
           \o getObjectShapeWrites(b) \o getObjectShapeWrites(h))

\* the writes of an invocation are a function of its two schemas
InvocationWrites == [b \in Values, h \in Values |-> CallWrites(b, h)]

\* the writes of the invocations of a diff, by invocation
RECURSIVE Writes(_)
Writes(calls) ==
  IF calls = <<>> THEN <<>>
  ELSE (IF Head(calls).entered THEN InvocationWrites[Head(calls).base, Head(calls).head]
        ELSE <<>>)
       \o Writes(Tail(calls))

\* the schemas after the writes: a write to an object made during the diff
\* leaves them as they are
RECURSIVE Written(_, _)
Written(schemas, writes) ==
  IF writes = <<>> THEN schemas
  ELSE IF Head(writes).target = Made THEN Written(schemas, Tail(writes))
  ELSE Written([schemas EXCEPT ![Head(writes).target.node][Head(writes).target.field]
                                  = Head(writes).value],
               Tail(writes))

\* ------------------------------------------------------------------------
\* Texts.  A text is a string; Len, \o and SubSeq are length, concatenation
\* and slice.  A message is kept as the sequence of the chunks the template
\* literal puts together; its text is their concatenation.
\* ------------------------------------------------------------------------
MAX_TEXT_LENGTH == 60000

\* String.prototype.repeat
RECURSIVE Repeat(_, _)
Repeat(s, n) ==
  IF n = 0 THEN ""
  ELSE IF n % 2 = 1 THEN s \o Repeat(s, n - 1)
  ELSE Repeat(s \o s, n \div 2)

\* the chunks of a message, or the parts of a text, put together
RECURSIVE Concat(_)
Concat(chunks) == IF chunks = <<>> THEN "" ELSE Head(chunks) \o Concat(Tail(chunks))

\* lines.join(sep)
RECURSIVE JoinText(_, _)
JoinText(lines, sep) ==
  IF lines = <<>> THEN ""
  ELSE IF Len(lines) = 1 THEN Head(lines)
  ELSE Head(lines) \o sep \o JoinText(Tail(lines), sep)

\* String(n) for a count
Digits == <<"0", "1", "2", "3", "4", "5", "6", "7", "8", "9">>

RECURSIVE Decimal(_)
Decimal(n) == IF n < 10 THEN Digits[n + 1] ELSE Decimal(n \div 10) \o Digits[(n % 10) + 1]

\* truncateText that cuts at MAX_TEXT_LENGTH and then adds the marker
truncateTextAtLimit(text) ==
  IF Len(text) <= MAX_TEXT_LENGTH THEN [text |-> text, truncated |-> FALSE]
  ELSE [text |-> SubSeq(text, 1, MAX_TEXT_LENGTH) \o "...", truncated |-> TRUE]

\* truncateText
truncateText(text) ==
  IF Len(text) <= MAX_TEXT_LENGTH THEN [text |-> text, truncated |-> FALSE]
  ELSE [text |-> SubSeq(text, 1, MAX_TEXT_LENGTH - 3) \o "...", truncated |-> TRUE]

\* severity.charAt(0).toUpperCase() + severity.slice(1)
Capitalized(severity) ==
  CASE severity = "breaking" -> "Breaking"
    [] severity = "warning" -> "Warning"
    [] severity = "info" -> "Info"

\* the lines of one severity section, from the items of that severity
SectionLines(severity, items) ==
  IF Len(items) = 0 THEN <<>>
  ELSE <<"", "### " \o Capitalized(severity) \o " (" \o Decimal(Len(items)) \o ")">>
       \o [i \in DOMAIN items |-> "- " \o Concat(items[i].message)]

\* order.forEach: the section of a severity is made of the items of it
Section(severity, items) ==
  SectionLines(severity, SelectSeq(items, LAMBDA item : item.severity = severity))

\* MarkdownLines with the sections in the order warning, breaking, info
MarkdownLinesWarningFirst(report) ==
  <<"## TrueSpec Summary", "",
    "- Breaking: " \o Decimal(report.summary.breaking),
    "- Warning: " \o Decimal(report.summary.warning),
    "- Info: " \o Decimal(report.summary.info)>>
  \o (IF Len(report.items) = 0 THEN <<"", "No differences found.">>
      ELSE Section("warning", report.items) \o Section("breaking", report.items)
           \o Section("info", report.items))

\* the lines array of formatMarkdown
MarkdownLines(report) ==
  <<"## TrueSpec Summary", "",
    "- Breaking: " \o Decimal(report.summary.breaking),
    "- Warning: " \o Decimal(report.summary.warning),
    "- Info: " \o Decimal(report.summary.info)>>
  \o (IF Len(report.items) = 0 THEN <<"", "No differences found.">>
      ELSE Section("breaking", report.items) \o Section("warning", report.items)
           \o Section("info", report.items))

\* formatMarkdown
formatMarkdown(report) == JoinText(MarkdownLines(report), "\n")

\* JSON.stringify of a string: quotes around it, a quote in it escaped (the
\* chunks of the model have no other character to escape)
JsonEscape(chunk) == IF chunk = "\"" THEN "\\\"" ELSE chunk

JsonString(chunks) ==
  "\"" \o Concat([i \in DOMAIN chunks |-> JsonEscape(chunks[i])]) \o "\""

\* JSON.stringify of a finding, the keys in the order addItem writes them
JsonItem(item) ==
  "{\"severity\":" \o JsonString(<<item.severity>>)
  \o ",\"code\":" \o JsonString(<<item.code>>)
  \o ",\"message\":" \o JsonString(item.message)
  \o ",\"operation\":{\"path\":" \o JsonString(<<item.operation.path>>)
  \o ",\"method\":" \o JsonString(<<item.operation.method>>) \o "}}"

\* JSON.stringify(items)
JsonItems(items) ==
  "[" \o JoinText([i \in DOMAIN items |-> JsonItem(items[i])], ",") \o "]"

\* serializeItems
serializeItems(items) == truncateText(JsonItems(items))

\* ------------------------------------------------------------------------
\* Input documents
\* ------------------------------------------------------------------------
Json(n) == << <<"application/json", n>> >>

Operation(parameters, responses, hasBody, bodyRequired, bodyContent) ==
  [parameters |-> parameters, responses |-> responses, hasBody |-> hasBody,
   bodyRequired |-> bodyRequired, bodyContent |-> bodyContent]

PathItem(parameters, methods) == [parameters |-> parameters, methods |-> methods]

\* a document with the one operation GET /pets whose request body (kind
\* "both") and response 200 have the schema node r
SchemaDoc(kind, r) ==
  [paths |-> << <<"/pets",
      PathItem(<<>>, << <<"get",
        Operation(<<>>, << <<"200", Json(r)>> >>, kind = "both", JsUndefined, Json(r))>> >>)>> >>]

SchemaDocKinds == {"both", "response"}

PLimit(required) == [name |-> "limit", in |-> "query", required |-> required]
PId == [name |-> "id", in |-> "path", required |-> JsUndefined]
PAnonymous == [name |-> "", in |-> "query", required |-> JsTrue]

ParamLists ==
  {<<>>, <<PLimit(JsTrue)>>, <<PLimit(JsFalse)>>, <<PLimit(JsStrFalse)>>,
   <<PId, PLimit(JsTrue), PLimit(JsTrue)>>, <<PAnonymous>>}

ResponseLists ==
  {<<>>,
   << <<"200", Json(5)>> >>,
   << <<"200", Json(6)>>, <<"404", <<>> >> >>,
   << <<"404", <<>> >>, <<"200", Json(5)>> >>,
   << <<"200", << <<"text/plain", 1>>, <<"application/vnd.api+json", 7>> >> >>,
      <<"default", Json(11)>> >>}

GetOperations ==
  {Operation(q, << <<"200", Json(5)>> >>, FALSE, JsUndefined, <<>>) : q \in ParamLists}
  \cup {Operation(<<>>, r, FALSE, JsUndefined, <<>>) : r \in ResponseLists}
  \cup {Operation(<<>>, << <<"200", Json(5)>> >>, TRUE, v, Json(6)) : v \in JsValues}

PostOperation == Operation(<<>>, << <<"201", Json(8)>> >>, TRUE, JsTrue, Json(7))

PetsItems ==
  {PathItem(<<>>, << <<"get", g>> >>) : g \in GetOperations}
  \cup {PathItem(q, << <<"post", PostOperation>>,
                       <<"get", Operation(<<>>, <<>>, FALSE, JsUndefined, <<>>)>> >>) :
          q \in {<<>>, <<PId>>, <<PLimit(JsTrue)>>}}

UsersItem == PathItem(<<>>, << <<"delete", Operation(<<PId>>, <<>>, FALSE, JsUndefined, <<>>)>> >>)

OperationDocs ==
  {[paths |-> <<>>], [paths |-> << <<"/users", UsersItem>> >>]}
  \cup {[paths |-> << <<"/pets", i>> >>] : i \in PetsItems}
  \cup {[paths |-> << <<"/pets", i>>, <<"/users", UsersItem>> >>] :
          i \in {PathItem(q, << <<"post", PostOperation>>,
                       <<"get", Operation(<<>>, <<>>, FALSE, JsUndefined, <<>>)>> >>) :
                   q \in {<<>>, <<PId>>}}}
  \cup {[paths |-> << <<"/users", UsersItem>>, <<"/pets", PathItem(<<>>, << <<"get", g>> >>)>> >>] :
          g \in {Operation(<<>>, r, FALSE, JsUndefined, <<>>) :
                   r \in {<<>>, << <<"200", Json(5)>> >>}}}

\* ------------------------------------------------------------------------
\* The request handler (module.exports).  One request is handled at a time.
\* Not modelled: the aliases of the body fields (baseSpec, baseSpecText), a
\* body sent as text, createdAt, paging of the list, the debug flag.
\* ------------------------------------------------------------------------
\* number of POST requests the service lets in
MaxReports == 1

\* how far around the truncation limit the lengths of the long texts go
Margin == 1

EmptyDoc == [paths |-> <<>>]

\* a document whose one operation GET has a path of n characters
LongDoc(n) ==
  [paths |-> << <<"/" \o SubSeq(Repeat("ab", n), 1, n - 1),
                  PathItem(<<>>, << <<"get", Operation(<<>>, <<>>, FALSE, JsUndefined, <<>>)>> >>)>> >>]

\* path lengths that put the markdown and the serialized items of the diff
\* of LongDoc(n) and the empty document at the truncation limit: the
\* markdown of the removed operation is 100 characters and the path, the
\* JSON text of its finding 126 characters and the path twice
LongLengths ==
  {MAX_TEXT_LENGTH - 100 + d : d \in (0 - Margin)..(Margin + 1)}
  \cup {((MAX_TEXT_LENGTH - 126) \div 2) + d : d \in (0 - Margin)..Margin}
  \cup {MAX_TEXT_LENGTH + 200}

LongDocs == {LongDoc(n) : n \in LongLengths}

\* value of baseSpec and headSpec while the handler has not assigned them
NoSpec == EmptyDoc

\* process.env and the optional yaml module
Envs == [adminToken : {"", "adm"}, ingestToken : {"", "ing"}, yaml : BOOLEAN]
NoEnv == [adminToken |-> "", ingestToken |-> "", yaml |-> FALSE]

\* a base or head value of the request body: nothing, a map, or a text
\* given by what the parsers make of it
RawUndefined == [kind |-> "undefined", doc |-> NoSpec]
RawRecord(doc) == [kind |-> "record", doc |-> doc]
RawJson(doc) == [kind |-> "json", doc |-> doc]
RawJsonArray == [kind |-> "jsonArray", doc |-> NoSpec]
RawYaml(doc) == [kind |-> "yaml", doc |-> doc]
RawYamlScalar == [kind |-> "yamlScalar", doc |-> NoSpec]
RawGarbage == [kind |-> "garbage", doc |-> NoSpec]

\* parseSpecInput: threw tells that an Error left the call, isNull that it
\* returned null
Parsed(doc) == [threw |-> FALSE, isNull |-> FALSE, doc |-> doc]
ParsedNull == [threw |-> FALSE, isNull |-> TRUE, doc |-> NoSpec]
ParseThrew == [threw |-> TRUE, isNull |-> TRUE, doc |-> NoSpec]

parseSpecInput(value, yaml) ==
  CASE value.kind = "undefined" -> ParsedNull
    [] value.kind = "record" -> Parsed(value.doc)
    [] value.kind = "json" -> Parsed(value.doc)
    [] value.kind = "jsonArray" -> ParsedNull
    [] ~yaml -> ParseThrew
    [] value.kind = "yaml" -> Parsed(value.doc)
    [] value.kind = "yamlScalar" -> ParsedNull
    [] OTHER -> ParseThrew

\* String.prototype.trim for the blanks of the model
RECURSIVE Trim(_)
Trim(s) ==
  IF Len(s) > 0 /\ SubSeq(s, 1, 1) = " " THEN Trim(SubSeq(s, 2, Len(s)))
  ELSE IF Len(s) > 0 /\ SubSeq(s, Len(s), Len(s)) = " " THEN Trim(SubSeq(s, 1, Len(s) - 1))
  ELSE s

\* authHeader.toLowerCase().startsWith("bearer ")
StartsWithBearer(authHeader) ==
  Len(authHeader) >= 7 /\ SubSeq(authHeader, 1, 7) \in {"Bearer ", "bearer ", "BEARER "}

\* getAdminToken; "" stands for null (both are falsy)
getAdminToken(headers) ==
  IF headers.xReportToken # "" THEN headers.xReportToken
  ELSE IF headers.authorization # "" /\ StartsWithBearer(headers.authorization)
  THEN Trim(SubSeq(headers.authorization, 8, Len(headers.authorization)))
  ELSE ""

\* normalizeRepo for lower-case names
normalizeRepo(value) == IF value = "" THEN "unknown" ELSE value

\* req.headers without a token
NoHeaders == [xReportToken |-> "", authorization |-> ""]

HeaderSets ==
  {NoHeaders,
   [xReportToken |-> "adm", authorization |-> ""],
   [xReportToken |-> "ing", authorization |-> ""],
   [xReportToken |-> "bad", authorization |-> "Bearer adm"],
   [xReportToken |-> "", authorization |-> "bearer  adm "],
   [xReportToken |-> "", authorization |-> "Bearer ing"],
   [xReportToken |-> "", authorization |-> "Basic adm"]}

\* the headers the POST requests of the model come with
PostHeaderSets ==
  {h \in HeaderSets : h.authorization \in {"", "Bearer ing"}}

Body(base, head, repo) == [base |-> base, head |-> head, repo |-> repo]
NoBody == Body(RawUndefined, RawUndefined, "")

Bodies ==
  {Body(RawUndefined, RawRecord(SchemaDoc("response", 5)), "acme"),
   Body(RawRecord(SchemaDoc("response", 5)), RawUndefined, "acme"),
   Body(RawRecord(SchemaDoc("response", 5)), RawRecord(SchemaDoc("response", 6)), "acme"),
   Body(RawJson(SchemaDoc("response", 6)), RawYaml(SchemaDoc("response", 5)), ""),
   Body(RawRecord(EmptyDoc), RawRecord(EmptyDoc), "acme"),
   Body(RawJsonArray, RawRecord(EmptyDoc), "acme"),
   Body(RawRecord(EmptyDoc), RawYamlScalar, "acme"),
   Body(RawRecord(EmptyDoc), RawGarbage, "acme"),
   Body(RawUndefined, RawGarbage, "acme"),
   Body(RawRecord(SchemaDoc("response", 11)), RawRecord(SchemaDoc("response", 11)), "acme"),
   Body(RawRecord(LongDoc(MAX_TEXT_LENGTH \div 2)), RawRecord(EmptyDoc), "acme")}

\* the documents a body of the model can carry
ServiceDocs == {b.base.doc : b \in Bodies} \cup {b.head.doc : b \in Bodies}

Request(method, headers, id, repo, body) ==
  [method |-> method, headers |-> headers, id |-> id, repo |-> repo, body |-> body]

NoRequest == Request("", NoHeaders, 0, "", NoBody)

\* req.params.id is 0 for a request without id
Requests ==
  {Request("GET", h, id, "", NoBody) : h \in HeaderSets, id \in 1..(MaxReports + 1)}
  \cup {Request("GET", h, 0, repo, NoBody) : h \in HeaderSets, repo \in {"", "acme"}}
  \cup {Request("POST", h, 0, "", b) : h \in PostHeaderSets, b \in Bodies}
  \cup {Request("DELETE", [xReportToken |-> "adm", authorization |-> ""], 0, "", NoBody)}

\* context.res: a status, the text of a text body, the value of a JSON body
Response(status, text, data) == [status |-> status, text |-> text, data |-> data]

ServerError == Response(500, "Server error", <<>>)

\* AuthorizeGet without the test of line 699
AuthorizeGetUnconfigured(expectedAdminToken, providedToken) ==
  IF providedToken # expectedAdminToken THEN <<Response(403, "Forbidden", <<>>)>>
  ELSE <<>>

\* lines 699-713: the answer that ends a GET before the store is reached,
\* none when the request goes on
AuthorizeGet(expectedAdminToken, providedToken) ==
  IF expectedAdminToken = "" THEN <<Response(403, "Admin token not configured", <<>>)>>
  ELSE IF providedToken = "" \/ providedToken # expectedAdminToken
  THEN <<Response(403, "Forbidden", <<>>)>>
  ELSE <<>>

\* AuthorizePost refusing only a request without token
AuthorizePostMissingOnly(method, expectedIngestToken, providedToken) ==
  IF method # "POST" THEN <<Response(405, "", <<>>)>>
  ELSE IF expectedIngestToken # "" /\ providedToken = ""
  THEN <<Response(403, "Forbidden", <<>>)>>
  ELSE <<>>

\* lines 816-827: the same for the other methods
AuthorizePost(method, expectedIngestToken, providedToken) ==
  IF method # "POST" THEN <<Response(405, "", <<>>)>>
  ELSE IF expectedIngestToken # ""
          /\ (providedToken = "" \/ providedToken # expectedIngestToken)
  THEN <<Response(403, "Forbidden", <<>>)>>
  ELSE <<>>

Authorize(r, e) ==
  IF r.method = "GET" THEN AuthorizeGet(e.adminToken, getAdminToken(r.headers))
  ELSE AuthorizePost(r.method, e.ingestToken, getAdminToken(r.headers))

\* NextStep of a handler that awaits ensureTable before it runs the diff
NextStepStoreFirst(step, method) ==
  CASE step = "authorize" -> (IF method = "GET" THEN "ensure" ELSE "parse")
    [] step = "parse" -> "ensure"
    [] step = "ensure" -> (IF method = "GET" THEN "query" ELSE "diff")
    [] step = "diff" -> "render"
    [] step = "render" -> "insert"
    [] OTHER -> "idle"

\* the order of the handler's steps: the step that follows a completed one
NextStep(step, method) ==
  CASE step = "authorize" -> (IF method = "GET" THEN "ensure" ELSE "parse")
    [] step = "parse" -> "diff"
    [] step = "diff" -> "render"
    [] step = "render" -> "ensure"
    [] step = "ensure" -> (IF method = "GET" THEN "query" ELSE "insert")
    [] OTHER -> "idle"

\* one entry of the log of a request: a step of the handler or a call of
\* the store, and how it ended
Step(step, outcome) == [step |-> step, outcome |-> outcome]

StoreOperations == {"createTable", "createEntity", "listEntities"}

\* lines 836-842 and the catch: what the two parseSpecInput calls lead to
ParseOutcome(base, head) ==
  IF base.threw \/ head.threw THEN "threw"
  ELSE IF base.isNull \/ head.isNull THEN "null"
  ELSE "ok"

\* lines 849-851
Rendering(markdown, items) ==
  [markdown |-> markdown, markdownResult |-> truncateText(markdown),
   itemsResult |-> serializeItems(items)]

\* the entity of lines 855-869 (createdAt left out)
Entity(repo, reportId, report, texts) ==
  [partitionKey |-> repo, rowKey |-> reportId, repo |-> repo, source |-> "api",
   summaryBreaking |-> report.summary.breaking,
   summaryWarning |-> report.summary.warning,
   summaryInfo |-> report.summary.info,
   summaryTotal |-> report.summary.total,
   markdown |-> texts.markdownResult.text,
   markdownTruncated |-> texts.markdownResult.truncated,
   items |-> texts.itemsResult.text,
   itemsTruncated |-> texts.itemsResult.truncated]

\* the body of lines 876-882
Posted(repo, reportId, report, texts) ==
  [reportId |-> reportId, repo |-> repo, summary |-> report.summary,
   markdown |-> texts.markdown, items |-> report.items]

\* JSON.parse of a stored items text: the text of a list of findings gives
\* the list, any other text throws SyntaxError
ServiceItems == {diffSpecs(b.base.doc, b.head.doc).sink : b \in Bodies}
ItemsTexts == {[text |-> JsonItems(items), items |-> items] : items \in ServiceItems}

\* the value JSON.parse gives for a text that is one of found, else it throws
ParsedItems(found) ==
  IF found = {} THEN [threw |-> TRUE, value |-> <<>>]
  ELSE [threw |-> FALSE, value |-> (CHOOSE t \in found : TRUE).items]

JsonParse(text) == ParsedItems({t \in ItemsTexts : t.text = text})

\* the body of lines 733-746
Fetched(entity, items) ==
  [id |-> entity.rowKey, repo |-> entity.repo, source |-> entity.source,
   summary |-> [breaking |-> entity.summaryBreaking, warning |-> entity.summaryWarning,
                info |-> entity.summaryInfo, total |-> entity.summaryTotal],
   markdown |-> entity.markdown, items |-> items]

\* lines 733-755: the entity with its items parsed, 500 when JSON.parse threw
Found(entity, items) ==
  IF items.threw THEN ServerError
  ELSE Response(200, "", <<Fetched(entity, items.value)>>)

\* lines 727-755: the first entity of the answer, or 404
ById(entities) ==
  IF entities = <<>> THEN Response(404, "Report not found", <<>>)
  ELSE Found(entities[1], JsonParse(entities[1].items))

\* one element of the list of lines 786-797
Listed(entity) ==
  [id |-> entity.rowKey, repo |-> entity.repo, source |-> entity.source,
   summary |-> [breaking |-> entity.summaryBreaking, warning |-> entity.summaryWarning,
                info |-> entity.summaryInfo, total |-> entity.summaryTotal]]

ByRepo(entities) ==
  Response(200, "", <<[items |-> [i \in DOMAIN entities |-> Listed(entities[i])]]>>)

\* ------------------------------------------------------------------------
\* State: process.env (env), the request being handled (req), the locals
\* of the handler (baseSpec, headSpec, result, and rendered for markdown,
\* markdownResult and itemsResult), the step the handler is at (pc),
\* context.res (res), the cached promise of ensureTable (tableReady), the
\* rows of the table (store), the log of the request being handled (trace)
\* and the bodies of the POST requests answered 200 (posted); the schema
\* objects of the documents as the diffs leave them (heap); and, where
\* requests are handled concurrently, the requests in flight (inflight)
\* and the runs of the setup function of ensureTable (attempts)
\* ------------------------------------------------------------------------
VARIABLES baseSpec, headSpec, result, rendered, pc, env, req, res, tableReady,
          store, trace, posted, heap, inflight, attempts

vars == <<baseSpec, headSpec, result, rendered, pc, env, req, res, tableReady,
          store, trace, posted, heap, inflight, attempts>>

Done == result # <<>>
R == result[1]

\* context.res is set and the handler returns
Reply(response) == res' = <<response>> /\ pc' = "idle"

\* the handler goes on to its next step
Proceed == res' = res /\ pc' = NextStep(pc, req.method)

Logged(step, outcome) == trace' = Append(trace, Step(step, outcome))

\* the handler is at line 848 with two parsed documents: a POST that needed
\* no token, of two maps
Init ==
  /\ \/ \E kind \in SchemaDocKinds, b, h \in Nodes :
           baseSpec = SchemaDoc(kind, b) /\ headSpec = SchemaDoc(kind, h)
     \/ (baseSpec \in OperationDocs /\ headSpec \in OperationDocs)
     \/ (baseSpec \in LongDocs /\ headSpec = EmptyDoc)
     \/ (baseSpec = EmptyDoc /\ headSpec \in LongDocs)
  /\ result = <<>>
  /\ rendered = <<>>
  /\ pc = "diff"
  /\ env = NoEnv
  /\ req = Request("POST", NoHeaders, 0, "", Body(RawRecord(baseSpec), RawRecord(headSpec), "acme"))
  /\ res = <<>>
  /\ tableReady = "unset"
  /\ store = <<>>
  /\ trace = <<Step("authorize", "ok"), Step("parse", "ok")>>
  /\ posted = <<>>
  /\ heap = Heap
  /\ inflight = <<>>
  /\ attempts = <<>>

\* the function app has started, no request has come
ServiceInit ==
  /\ baseSpec = NoSpec /\ headSpec = NoSpec
  /\ result = <<>>
  /\ rendered = <<>>
  /\ pc = "idle"
  /\ env \in Envs
  /\ req = NoRequest
  /\ res = <<>>
  /\ tableReady = "unset"
  /\ store = <<>>
  /\ trace = <<>>
  /\ posted = <<>>
  /\ heap = Heap
  /\ inflight = <<>>
  /\ attempts = <<>>

\* lines 693-827: a request comes and is let in or turned away
Receive ==
  /\ pc = "idle"
  /\ \E r \in Requests :
       /\ r.method = "POST" => Len(store) < MaxReports
       /\ req' = r
       /\ res' = Authorize(r, env)
       /\ pc' = IF Authorize(r, env) = <<>> THEN NextStep("authorize", r.method) ELSE "idle"
       /\ trace' = <<Step("authorize", IF Authorize(r, env) = <<>> THEN "ok" ELSE "refused")>>
  /\ baseSpec' = NoSpec /\ headSpec' = NoSpec
  /\ result' = <<>>
  /\ rendered' = <<>>
  /\ UNCHANGED <<env, tableReady, store, posted, heap, inflight, attempts>>

\* lines 829-842
Parsing(base, head) ==
  /\ baseSpec' = base.doc
  /\ headSpec' = head.doc
  /\ Logged("parse", ParseOutcome(base, head))
  /\ IF ParseOutcome(base, head) = "ok" THEN Proceed
     ELSE IF ParseOutcome(base, head) = "null"
     THEN Reply(Response(400, "Missing base/head specs", <<>>))
     ELSE Reply(ServerError)

ParseBody ==
  /\ pc = "parse"
  /\ Parsing(parseSpecInput(req.body.base, env.yaml), parseSpecInput(req.body.head, env.yaml))
  /\ UNCHANGED <<result, rendered, env, req, tableReady, store, posted, heap, inflight, attempts>>

\* const result = diffSpecs(baseSpec, headSpec)
Diffing(report) ==
  /\ result' = <<report>>
  /\ heap' = Written(heap, Writes(report.calls))
  /\ Logged("diff", IF report.threw THEN "threw" ELSE "ok")
  /\ IF report.threw THEN Reply(ServerError) ELSE Proceed

RunDiff ==
  /\ pc = "diff"
  /\ Diffing(diffSpecs(baseSpec, headSpec))
  /\ UNCHANGED <<baseSpec, headSpec, rendered, env, req, tableReady, store, posted, inflight, attempts>>

\* lines 849-851
Render ==
  /\ pc = "render"
  /\ rendered' = <<Rendering(formatMarkdown(R.returned[1]), R.returned[1].items)>>
  /\ Logged("render", "ok")
  /\ Proceed
  /\ UNCHANGED <<baseSpec, headSpec, result, env, req, tableReady, store, posted, heap, inflight, attempts>>

\* await ensureTable(); getTableClient(): the cached promise, or the first
\* call with what createTable answers
TableOutcomes(ready) ==
  IF ready = "unset" THEN {"unavailable", "ok", "conflict", "error"} ELSE {"cached"}

\* Ensured that forgets a rejected promise
EnsuredRetry(ready, outcome) ==
  IF outcome = "cached" THEN ready
  ELSE IF outcome \in {"ok", "conflict"} THEN "resolved"
  ELSE "unset"

Ensured(ready, outcome) ==
  IF outcome = "cached" THEN ready
  ELSE IF outcome \in {"ok", "conflict"} THEN "resolved"
  ELSE "rejected"

EnsureTable ==
  /\ pc = "ensure"
  /\ \E outcome \in TableOutcomes(tableReady) :
       /\ tableReady' = Ensured(tableReady, outcome)
       /\ trace' = IF outcome \in {"ok", "conflict", "error"}
                   THEN Append(trace, Step("createTable", outcome))
                   ELSE trace
       /\ IF Ensured(tableReady, outcome) = "resolved" THEN Proceed ELSE Reply(ServerError)
  /\ UNCHANGED <<baseSpec, headSpec, result, rendered, env, req, store, posted, heap, inflight, attempts>>

\* await client.createEntity(...) and the answer of lines 871-883.  The
\* reportId is a fresh one; a conflict tells that the row is in the table
Inserting(outcome, repo, reportId) ==
  /\ Logged("createEntity", outcome)
  /\ store' = IF outcome = "error" THEN store
              ELSE Append(store, Entity(repo, reportId, R.returned[1], rendered[1]))
  /\ posted' = IF outcome = "ok"
               THEN Append(posted, Posted(repo, reportId, R.returned[1], rendered[1]))
               ELSE posted
  /\ IF outcome = "ok"
     THEN Reply(Response(200, "", <<Posted(repo, reportId, R.returned[1], rendered[1])>>))
     ELSE Reply(ServerError)

CreateEntity ==
  /\ pc = "insert"
  /\ \E outcome \in {"ok", "conflict", "error"} :
       Inserting(outcome, normalizeRepo(req.body.repo), Len(store) + 1)
  /\ UNCHANGED <<baseSpec, headSpec, result, rendered, env, req, tableReady, heap, inflight, attempts>>

\* lines 718-813: a report by id, or the reports of a repo
QueryOutcomes(r) ==
  IF r.id = 0 /\ normalizeRepo(r.repo) = "unknown" THEN {"none"} ELSE {"ok", "error"}

Querying(outcome, r) ==
  /\ trace' = IF outcome = "none" THEN trace ELSE Append(trace, Step("listEntities", outcome))
  /\ Reply(CASE outcome = "none" -> Response(400, "Missing repo query parameter", <<>>)
             [] outcome = "error" -> ServerError
             [] outcome = "ok" /\ r.id # 0 ->
                  ById(SelectSeq(store, LAMBDA entity : entity.rowKey = r.id))
             [] OTHER ->
                  ByRepo(SelectSeq(store, LAMBDA entity : entity.partitionKey = normalizeRepo(r.repo))))

Query ==
  /\ pc = "query"
  /\ \E outcome \in QueryOutcomes(req) : Querying(outcome, req)
  /\ UNCHANGED <<baseSpec, headSpec, result, rendered, env, req, tableReady, store, posted, heap, inflight, attempts>>

\* one POST from line 848 on
Next == RunDiff \/ Render \/ EnsureTable \/ CreateEntity

Spec == Init /\ [][Next]_vars

\* the handler, request after request
ServiceNext == Receive \/ ParseBody \/ RunDiff \/ Render \/ EnsureTable \/ CreateEntity \/ Query

Service == ServiceInit /\ [][ServiceNext]_vars

TypeOK == Len(result) <= 1

\* ------------------------------------------------------------------------
\* Requests handled concurrently in one process.  A handler runs without
\* interruption up to its await: a request is let in, parses, runs its
\* diff, renders and calls ensureTable in one step, and is resumed when the
\* promise of ensureTable is settled.
\* ------------------------------------------------------------------------
MaxCallers == 2

Callers == 1..MaxCallers

\* the requests of the concurrent handlers: GET requests with the admin
\* token, POST requests with two documents: two pairs whose diffs have
\* findings, one whose diff throws
ConcurrentDocs == {<<5, 19>>, <<19, 5>>, <<5, 11>>}

ConcurrentRequests ==
  {[method |-> "GET", base |-> NoSpec, head |-> NoSpec]}
  \cup {[method |-> "POST", base |-> SchemaDoc("response", d[1]),
                           head |-> SchemaDoc("response", d[2])] : d \in ConcurrentDocs}

\* a handler: where it is, its request, the value of tableReady it found
\* (line 58), whether the store could be set up when it called ensureTable
\* (connection string present, store reachable), and its locals result and
\* markdown
Handler(at, r, found, available, report, markdown) ==
  [pc |-> at, method |-> r.method, base |-> r.base, head |-> r.head,
   found |-> found, available |-> available, report |-> report,
   markdown |-> markdown]

NoHandler ==
  Handler("idle", [method |-> "", base |-> NoSpec, head |-> NoSpec], "", FALSE,
          <<>>, "")

\* the reports the handlers in flight hold, in the order of the handlers
Reports(handlers) ==
  [c \in DOMAIN handlers |-> IF handlers[c].report = <<>> THEN <<>>
                             ELSE handlers[c].report[1].sink]

\* the sequences of a sequence put together
RECURSIVE Flatten(_)
Flatten(seqs) == IF seqs = <<>> THEN <<>> ELSE Head(seqs) \o Flatten(Tail(seqs))

\* diffSpecs in a process with a sink in the module: the findings of the
\* calls before are in the sink the call pushes onto
diffSpecsSharedSink(sinks, base, head) ==
  [diffSpecs(base, head) EXCEPT
     !.returned = IF diffSpecs(base, head).threw THEN <<>>
                  ELSE <<[summary |-> Summary(Flatten(sinks) \o diffSpecs(base, head).sink),
                          items |-> Flatten(sinks) \o diffSpecs(base, head).sink]>>]

\* diffSpecs in a process where other calls have run: const items = []
\* (line 561) and the new WeakSet() of every root give the call a sink and
\* visited sets of its own, nothing of the other calls is read
diffSpecsAmong(sinks, base, head) == diffSpecs(base, head)

\* the promise ensureTable stores at once, before any other handler runs,
\* when none is stored: rejected if the setup function throws before it
\* calls createTable
SetupStoredLate(ready, available) ==
  IF ready # "unset" THEN ready
  ELSE IF available THEN "unset"
  ELSE "rejected"

Setup(ready, available) ==
  IF ready # "unset" THEN ready
  ELSE IF available THEN "pending"
  ELSE "rejected"

\* the variables of the handler that takes one request at a time
sequential == <<baseSpec, headSpec, result, rendered, pc, env, req, res, store, trace, posted>>

\* the process has started, no request has come
ConcurrentInit ==
  /\ baseSpec = NoSpec /\ headSpec = NoSpec
  /\ result = <<>>
  /\ rendered = <<>>
  /\ pc = "idle"
  /\ env = NoEnv
  /\ req = NoRequest
  /\ res = <<>>
  /\ tableReady = "unset"
  /\ store = <<>>
  /\ trace = <<>>
  /\ posted = <<>>
  /\ heap = Heap
  /\ inflight = [c \in Callers |-> NoHandler]
  /\ attempts = <<>>

\* lines 693-853 (693-715 for a GET): the handler of r runs up to its
\* await; a diff that throws ends it with 500 (line 884); else ensureTable
\* is called and, no promise being stored, runs its setup function up to
\* the call of createTable and stores the promise
Calling(c, r, report, available) ==
  /\ heap' = IF report = <<>> THEN heap ELSE Written(heap, Writes(report[1].calls))
  /\ IF report # <<>> /\ report[1].threw
     THEN /\ inflight' = [inflight EXCEPT ![c] = Handler("failed", r, "", FALSE, report, "")]
          /\ UNCHANGED <<tableReady, attempts>>
     ELSE /\ inflight' = [inflight EXCEPT ![c] =
                            Handler("awaiting", r, tableReady, available, report,
                                    IF report = <<>> THEN ""
                                    ELSE formatMarkdown(report[1].returned[1]))]
          /\ tableReady' = Setup(tableReady, available)
          /\ attempts' = IF tableReady # "unset" THEN attempts
                         ELSE Append(attempts, IF available THEN "pending" ELSE "unavailable")

Arrive ==
  /\ \E c \in Callers, r \in ConcurrentRequests, available \in BOOLEAN :
       /\ inflight[c].pc = "idle"
       /\ Calling(c, r,
                  IF r.method = "POST"
                  THEN <<diffSpecsAmong(Reports(inflight), r.base, r.head)>>
                  ELSE <<>>,
                  available)
  /\ UNCHANGED sequential

\* lines 77-84: the store answers createTable and the promise is settled
TableAnswered ==
  /\ tableReady = "pending"
  /\ \E outcome \in {"ok", "conflict", "error"} :
       /\ tableReady' = Ensured("unset", outcome)
       /\ attempts' = [attempts EXCEPT ![Len(attempts)] = outcome]
  /\ UNCHANGED <<sequential, heap, inflight>>

\* a handler that awaits the settled promise goes on, to the store (lines
\* 854, 716) or to the catch and its 500 (lines 884-890)
Resume ==
  /\ tableReady \in {"resolved", "rejected"}
  /\ \E c \in Callers :
       /\ inflight[c].pc = "awaiting"
       /\ inflight' = [inflight EXCEPT
                         ![c].pc = IF tableReady = "resolved" THEN "proceeded" ELSE "failed"]
  /\ UNCHANGED <<sequential, heap, tableReady, attempts>>

\* the handler has returned
Leave ==
  /\ \E c \in Callers :
       /\ inflight[c].pc \in {"proceeded", "failed"}
       /\ inflight' = [inflight EXCEPT ![c] = NoHandler]
  /\ UNCHANGED <<sequential, heap, tableReady, attempts>>

ConcurrentNext == Arrive \/ TableAnswered \/ Resume \/ Leave

Concurrent == ConcurrentInit /\ [][ConcurrentNext]_vars


\* ------------------------------------------------------------------------
\* Notions the properties are stated with
\* ------------------------------------------------------------------------
\* the schema nodes a walk can go to from n: property values, items and the
\* allOf members merged for property gathering
Children(n) ==
  [i \in DOMAIN Schema(n).props |-> Schema(n).props[i][2]]
  \o <<Schema(n).items>> \o Schema(n).allOf

ChildSet(n) == {c \in Range(Children(n)) : isRecord(c)}

RECURSIVE ReachFrom(_)
ReachFrom(set) ==
  LET next == set \cup UNION {ChildSet(m) : m \in set}
  IN IF next = set THEN set ELSE ReachFrom(next)

\* n is reachable from itself
OnCycle(n) == n \in ReachFrom(ChildSet(n))

\* the schema roots diffSpecs may hand to compareSchema for a document
Roots(spec) ==
  LET ops == getOperations(spec)
  IN {r \in Nodes : \E i \in DOMAIN ops :
        \/ r = getRequestSchema(ops[i].operation)
        \/ \E j \in DOMAIN getResponseSchemas(ops[i].operation) :
             r = getResponseSchemas(ops[i].operation)[j][2]}

\* the schema graph of the document contains a cycle
Cyclic(spec) == \E n \in ReachFrom(Roots(spec)) : OnCycle(n)

\* the report diffSpecs returned, if it returned
Returned == IF Done /\ ~R.threw THEN R.returned ELSE <<>>

IsZero(summary) ==
  summary.breaking = 0 /\ summary.warning = 0 /\ summary.info = 0 /\ summary.total = 0

\* C1 (as claimed): Reflexivity.  diffSpecs(S, S) returns a report whose
\* items list is empty and whose summary counts are all zero, for every
\* document S, shared and nested schema nodes included.
C1_Reflexivity ==
  Done /\ baseSpec = headSpec =>
    /\ Len(R.returned) = 1
    /\ R.returned[1].items = <<>>
    /\ IsZero(R.returned[1].summary)

\* C3 (as claimed): Cycle safety.  diffSpecs returns for every pair of
\* documents whose schema graphs contain a cycle through properties, items
\* or merged allOf members, and a cyclic document compared with itself gives
\* no finding.
C3_CycleSafety ==
  Done /\ (Cyclic(baseSpec) \/ Cyclic(headSpec)) =>
    /\ ~R.threw
    /\ (baseSpec = headSpec => R.sink = <<>>)

\* the table of the finding codes and their severities (two for
\* schema-required-added)
CodeTable ==
  [code \in {"operation-removed", "operation-added", "response-removed", "response-added",
             "required-param-added", "request-body-required", "schema-type-changed",
             "schema-nullable-removed", "schema-nullable-added", "schema-union-removed",
             "schema-union-added", "schema-enum-changed", "schema-field-removed",
             "schema-field-added", "schema-required-added"} |->
     CASE code \in {"operation-removed", "response-removed", "schema-type-changed",
                    "schema-nullable-removed", "schema-union-removed",
                    "schema-enum-changed", "schema-field-removed"} -> {"breaking"}
       [] code \in {"required-param-added", "request-body-required"} -> {"warning"}
       [] code = "schema-required-added" -> {"warning", "info"}
       [] OTHER -> {"info"}]

\* the schema path a schema finding names starts with "request."
InRequest(f) == Len(f.message) >= 2 /\ f.message[2] = "request."
InResponse(f) == Len(f.message) >= 2 /\ f.message[2] = "response."

\* the two schemas carry the same keywords apart from their properties
SameKeywords(b, h) ==
  /\ Schema(b).type = Schema(h).type
  /\ Schema(b).nullable = Schema(h).nullable
  /\ Schema(b).hasEnum = Schema(h).hasEnum
  /\ Schema(b).enum = Schema(h).enum
  /\ Schema(b).required = Schema(h).required
  /\ Schema(b).allOf = Schema(h).allOf
  /\ Schema(b).oneOf = Schema(h).oneOf
  /\ Schema(b).anyOf = Schema(h).anyOf
  /\ Schema(b).ref = Schema(h).ref
  /\ Schema(b).format = Schema(h).format
  /\ Schema(b).title = Schema(h).title
  /\ ((Schema(b).items = Undefined) <=> (Schema(h).items = Undefined))

\* the two schemas differ only by properties one of them has and the other
\* lacks, at any depth
RECURSIVE FieldsOnly(_, _, _)
FieldsOnly(b, h, seen) ==
  IF <<b, h>> \in seen THEN TRUE
  ELSE /\ SameKeywords(b, h)
       /\ Schema(b).items # Undefined =>
            FieldsOnly(Schema(b).items, Schema(h).items, seen \cup {<<b, h>>})
       /\ \A i \in DOMAIN Schema(b).props :
            OwnProperty(Schema(h).props, Schema(b).props[i][1]) # Undefined =>
              FieldsOnly(Schema(b).props[i][2],
                         OwnProperty(Schema(h).props, Schema(b).props[i][1]),
                         seen \cup {<<b, h>>})

SchemaPure(b, h) ==
  \/ b = Undefined /\ h = Undefined
  \/ b # Undefined /\ h # Undefined /\ FieldsOnly(b, h, {})

\* a shared operation differs only by responses and schema fields one side
\* has and the other lacks
OpPure(bo, ho) ==
  /\ bo.pathItem.parameters = ho.pathItem.parameters
  /\ bo.operation.parameters = ho.operation.parameters
  /\ bo.operation.hasBody = ho.operation.hasBody
  /\ bo.operation.bodyRequired = ho.operation.bodyRequired
  /\ SchemaPure(getRequestSchema(bo.operation), getRequestSchema(ho.operation))
  /\ \A i \in DOMAIN bo.operation.responses :
       HasKey(ho.operation.responses, bo.operation.responses[i][1]) =>
         SchemaPure(getSchemaFromContent(bo.operation.responses[i][2]),
                    getSchemaFromContent(ValueOf(ho.operation.responses,
                                                 bo.operation.responses[i][1])))

\* the two documents differ only by additions or removals (of operations,
\* responses and schema fields)
PureAddRemove(b, h) ==
  \A i \in DOMAIN getOperations(b) :
    getOperations(b)[i].key \in OpKeys(getOperations(h)) =>
      OpPure(getOperations(b)[i], OpAt(getOperations(h), getOperations(b)[i].key))

\* the number of edges (property values, items, allOf members) into n from
\* the nodes of the set
InDegree(n, set) ==
  Cardinality({e \in set \X (1..NumNodes + 2) :
                 e[2] \in DOMAIN Children(e[1]) /\ Children(e[1])[e[2]] = n})

\* the schema below r is a tree: no node is met on two paths from r, none
\* is below itself
TreeFrom(r) ==
  LET below == ReachFrom({r})
  IN /\ InDegree(r, below) = 0
     /\ \A n \in below \ {r} : InDegree(n, below) = 1

TreeShaped(spec) == \A r \in Roots(spec) : TreeFrom(r)

\* the findings of the report of a diff, none when the diff threw
FindingsOf(r) == IF r.threw THEN <<>> ELSE r.returned[1].items

\* a finding with this code names what f names: the same operation and the
\* same text after the leading words of the message
HasCounterpart(f, code, items) ==
  \E j \in DOMAIN items : /\ items[j].code = code
                          /\ items[j].operation = f.operation
                          /\ Tail(items[j].message) = Tail(f.message)

\* every removal of fwd has its addition in rev, a field removal exactly
\* when its path is in the response context
Polarity(fwd, rev) ==
  \A i \in DOMAIN fwd :
    /\ fwd[i].code = "operation-removed" => HasCounterpart(fwd[i], "operation-added", rev)
    /\ fwd[i].code = "response-removed" => HasCounterpart(fwd[i], "response-added", rev)
    /\ fwd[i].code = "schema-field-removed" =>
         (HasCounterpart(fwd[i], "schema-field-added", rev)
            <=> getSchemaContext(Tail(fwd[i].message)) = "response")

\* C2 (as claimed): Swap polarity.  For a base/head pair that differ only
\* by additions or removals, every operation-removed finding of
\* diff(base, head) has an operation-added finding for the same key in
\* diff(head, base), every response-removed a response-added for the same
\* status and operation, and every schema-field-removed at a path a
\* schema-field-added at the same path iff the path is in the response
\* context.
C2_SwapPolarity ==
  Done /\ PureAddRemove(baseSpec, headSpec) =>
    Polarity(FindingsOf(R), FindingsOf(diffSpecs(headSpec, baseSpec)))

\* C2 (amended): Swap polarity holds for the pairs that differ only by
\* additions or removals and whose compared schemas are trees, that is, no
\* schema node is met on two paths from a compared root schema.
C2_SwapPolarityOfTrees ==
  Done /\ PureAddRemove(baseSpec, headSpec)
       /\ TreeShaped(baseSpec) /\ TreeShaped(headSpec) =>
    Polarity(FindingsOf(R), FindingsOf(diffSpecs(headSpec, baseSpec)))

\* a pure pair of tree-shaped documents whose diff has a field removal in
\* the request context and one in the response context, and whose swapped
\* diff returns
C2_Witness ==
  /\ Done /\ PureAddRemove(baseSpec, headSpec)
  /\ TreeShaped(baseSpec) /\ TreeShaped(headSpec)
  /\ ~R.threw /\ ~diffSpecs(headSpec, baseSpec).threw
  /\ \E i, j \in DOMAIN R.sink :
       /\ R.sink[i].code = "schema-field-removed" /\ InRequest(R.sink[i])
       /\ R.sink[j].code = "schema-field-removed" /\ InResponse(R.sink[j])

\* a pure pair whose diff has an operation removal and one whose diff has a
\* response removal
C2_WitnessOperation ==
  /\ Done /\ PureAddRemove(baseSpec, headSpec)
  /\ TreeShaped(baseSpec) /\ TreeShaped(headSpec)
  /\ \E i \in DOMAIN R.sink : R.sink[i].code = "operation-removed"

C2_WitnessResponse ==
  /\ Done /\ PureAddRemove(baseSpec, headSpec)
  /\ TreeShaped(baseSpec) /\ TreeShaped(headSpec)
  /\ \E i \in DOMAIN R.sink : R.sink[i].code = "response-removed"

\* C4: Closed code set with fixed severities.  Every finding pushed by a
\* diffSpecs call has one of the 15 codes and the severity the table gives;
\* schema-required-added is warning exactly on a request path and info
\* elsewhere; schema-union-added is info on every path.
C4_ClosedCodeSet ==
  Done =>
    \A i \in DOMAIN R.sink :
      LET f == R.sink[i]
      IN /\ f.code \in DOMAIN CodeTable
         /\ f.severity \in CodeTable[f.code]
         /\ f.code = "schema-required-added" => (f.severity = "warning" <=> InRequest(f))
         /\ f.code = "schema-union-added" => f.severity = "info"

C4_Witness ==
  /\ Done
  /\ \E i, j, k \in DOMAIN R.sink :
       /\ R.sink[i].code = "schema-required-added" /\ R.sink[i].severity = "warning"
       /\ R.sink[j].code = "schema-required-added" /\ R.sink[j].severity = "info"
       /\ R.sink[k].code = "schema-nullable-added"

C4_WitnessUnion ==
  /\ Done
  /\ \E i, j \in DOMAIN R.sink :
       /\ R.sink[i].code = "schema-union-added" /\ InRequest(R.sink[i])
       /\ R.sink[j].code = "schema-union-added" /\ InResponse(R.sink[j])

\* C5: Count invariant.  In every report diffSpecs returns, breaking +
\* warning + info = total = the number of items, and the count of the
\* severity of every item is at least 1.
C5_CountInvariant ==
  \A r \in DOMAIN Returned :
    LET summary == Returned[r].summary
        items == Returned[r].items
    IN /\ summary.breaking + summary.warning + summary.info = summary.total
       /\ summary.total = Len(items)
       /\ \A i \in DOMAIN items :
            CASE items[i].severity = "breaking" -> summary.breaking >= 1
              [] items[i].severity = "warning" -> summary.warning >= 1
              [] items[i].severity = "info" -> summary.info >= 1
              [] OTHER -> FALSE

C5_Witness ==
  \E r \in DOMAIN Returned :
    /\ Returned[r].summary.breaking >= 1
    /\ Returned[r].summary.warning >= 1
    /\ Returned[r].summary.info >= 1

\* the names of the non-null types a schema names
TypeSet(n) ==
  IF ~isRecord(n) THEN {} ELSE Range(normalizeTypes(Schema(n).type)) \ {"null"}

\* both type signatures are non-empty and they differ
TypeMismatch(b, h) == TypeSet(b) # {} /\ TypeSet(h) # {} /\ TypeSet(b) # TypeSet(h)

\* the keys of a merged property map
KeySet(properties) == {properties[i][1] : i \in DOMAIN properties}

\* invocation c of compareSchema entered its pair, passed the type step and
\* found a non-empty property map on both sides
ComparesFields(c) ==
  /\ R.calls[c].entered
  /\ ~TypeMismatch(R.calls[c].base, R.calls[c].head)
  /\ ~ObjectShape[R.calls[c].base].isNull
  /\ ~ObjectShape[R.calls[c].head].isNull

\* the findings invocation c pushed with this code, severity and message
PushedBy(c, code, severity, message) ==
  {i \in DOMAIN R.sink : /\ R.src[i] = c
                         /\ R.sink[i].code = code
                         /\ R.sink[i].severity = severity
                         /\ R.sink[i].message = message}

\* the invocations made by invocation c for the path segment seg
CallsOf(c, seg) == {d \in DOMAIN R.calls : R.calls[d].parent = c /\ R.calls[d].seg = seg}

\* C6 (as claimed): Field removed.  When compareSchema enters a pair whose
\* merged property maps are both non-empty (and the types do not stop the
\* walk), it pushes exactly one breaking schema-field-removed finding
\* "Removed field <schemaPath>.<key>" for each key of base's map that head's
\* map lacks, and does not recurse at that key; every key of both maps is
\* compared recursively at the path "<schemaPath>.<key>".
C6_FieldRemoved ==
  Done /\ ~R.threw =>
    \A c \in DOMAIN R.calls :
      ComparesFields(c) =>
        \A key \in KeySet(ObjectShape[R.calls[c].base].properties) :
          IF key \notin KeySet(ObjectShape[R.calls[c].head].properties)
          THEN /\ Cardinality(PushedBy(c, "schema-field-removed", "breaking",
                                <<"Removed field ">> \o R.calls[c].path \o <<".", key>>)) = 1
               /\ CallsOf(c, key) = {}
          ELSE /\ Cardinality(CallsOf(c, key)) = 1
               /\ \A d \in CallsOf(c, key) :
                    /\ R.calls[d].path = R.calls[c].path \o <<".", key>>
                    /\ R.calls[d].base = OwnProperty(ObjectShape[R.calls[c].base].properties, key)
                    /\ R.calls[d].head = OwnProperty(ObjectShape[R.calls[c].head].properties, key)

\* C7 (as claimed): Field added is response-only.  A key of head's property
\* map that base's map lacks yields one info schema-field-added finding
\* when the schema path is in the response context and none in any other
\* context; no diff contains a schema-field-added finding whose path
\* starts with "request.".
C7_FieldAddedResponseOnly ==
  Done /\ ~R.threw =>
    /\ \A c \in DOMAIN R.calls :
         ComparesFields(c) =>
           \A key \in KeySet(ObjectShape[R.calls[c].head].properties)
                        \ KeySet(ObjectShape[R.calls[c].base].properties) :
             /\ Cardinality(PushedBy(c, "schema-field-added", "info",
                              <<"Added field ">> \o R.calls[c].path \o <<".", key>>))
                  = IF getSchemaContext(R.calls[c].path) = "response" THEN 1 ELSE 0
             /\ getSchemaContext(R.calls[c].path) # "response" =>
                  \A i \in DOMAIN R.sink :
                    R.src[i] = c => R.sink[i].code # "schema-field-added"
    /\ \A i \in DOMAIN R.sink : R.sink[i].code = "schema-field-added" => ~InRequest(R.sink[i])

SharedKeys == {k \in OpKeys(getOperations(baseSpec)) : k \in OpKeys(getOperations(headSpec))}

\* the number of findings of the sink with this code, severity and message
CountOf(sink, code, severity, message) ==
  Cardinality({i \in DOMAIN sink : /\ sink[i].code = code
                                   /\ sink[i].severity = severity
                                   /\ sink[i].message = message})

CountCode(sink, code) == Cardinality({i \in DOMAIN sink : sink[i].code = code})

\* C8: Operation set difference.  With B and H the operation keys of base
\* and head, diffSpecs pushes exactly one breaking operation-removed finding
\* "Removed operation <METHOD> <path>" for each key of B \ H, exactly one
\* info operation-added finding for each key of H \ B, and no such finding
\* for a key of both.
C8_OperationSetDifference ==
  Done =>
    LET B == OpKeys(getOperations(baseSpec))
        H == OpKeys(getOperations(headSpec))
    IN /\ \A k \in B \ H :
            CountOf(R.sink, "operation-removed", "breaking", <<"Removed operation ">> \o k) = 1
       /\ \A k \in H \ B :
            CountOf(R.sink, "operation-added", "info", <<"Added operation ">> \o k) = 1
       /\ CountCode(R.sink, "operation-removed") = Cardinality(B \ H)
       /\ CountCode(R.sink, "operation-added") = Cardinality(H \ B)

C8_Witness ==
  /\ Done
  /\ CountCode(R.sink, "operation-removed") >= 1
  /\ CountCode(R.sink, "operation-added") >= 1
  /\ SharedKeys # {}

\* the required parameter ids of an operation as the specification defines
\* them: required is exactly true, or the parameter is in the path
RequiredIds(op) ==
  {<<q.in, ":", q.name>> :
     q \in {x \in Range(op.pathItem.parameters \o op.operation.parameters) :
              /\ x.name # "" /\ x.in # ""
              /\ (x.required = JsTrue \/ x.in = "path")}}

\* C9 (as claimed): Required parameters.  A parameter counts as required
\* iff its required value is exactly true or it is in the path; for each
\* shared operation a returning diffSpecs pushes one warning
\* required-param-added finding for each id required in head and not in
\* base, and no other required-param-added finding.
C9_RequiredParams ==
  Done /\ ~R.threw =>
    \A k \in SharedKeys :
      LET baseOp == OpAt(getOperations(baseSpec), k)
          headOp == OpAt(getOperations(headSpec), k)
          new == RequiredIds(headOp) \ RequiredIds(baseOp)
      IN /\ \A id \in new :
              CountOf(R.sink, "required-param-added", "warning",
                      <<"New required parameter ">> \o id \o <<" for ">> \o k) = 1
         /\ Cardinality({i \in DOMAIN R.sink :
                           /\ R.sink[i].code = "required-param-added"
                           /\ R.sink[i].operation = [path |-> headOp.path, method |-> headOp.method]})
              = Cardinality(new)

\* the findings invocation c pushed
FindingsBy(c) == {i \in DOMAIN R.sink : R.src[i] = c}

\* C10: Type mismatch stops the walk at that node.  When both nodes have a
\* non-empty type signature and the signatures differ, compareSchema pushes
\* one breaking schema-type-changed finding for the path, pushes no union,
\* enum, required or field finding for the node and makes no recursive
\* call below it, while the keys the parent's two property maps share are
\* all still compared; when either signature is empty or the two are equal,
\* the invocation pushes no schema-type-changed finding.
C10_TypeMismatchStops ==
  Done /\ ~R.threw =>
    \A c \in DOMAIN R.calls :
      R.calls[c].entered =>
        IF TypeMismatch(R.calls[c].base, R.calls[c].head)
        THEN /\ Cardinality({i \in FindingsBy(c) : R.sink[i].code = "schema-type-changed"}) = 1
             /\ \A i \in FindingsBy(c) :
                  /\ R.sink[i].code \in {"schema-type-changed", "schema-nullable-removed",
                                         "schema-nullable-added"}
                  /\ R.sink[i].code = "schema-type-changed" =>
                       /\ R.sink[i].severity = "breaking"
                       /\ R.sink[i].message[1] = "Type changed at "
                       /\ SubSeq(R.sink[i].message, 2, Len(R.calls[c].path) + 1) = R.calls[c].path
                       /\ R.sink[i].message[Len(R.calls[c].path) + 2] = " ("
             /\ \A d \in DOMAIN R.calls : R.calls[d].parent # c
             /\ R.calls[c].parent # 0 /\ R.calls[c].seg # "[]" =>
                  \A key \in KeySet(ObjectShape[R.calls[R.calls[c].parent].base].properties)
                               \cap KeySet(ObjectShape[R.calls[R.calls[c].parent].head].properties) :
                    Cardinality(CallsOf(R.calls[c].parent, key)) = 1
        ELSE \A i \in FindingsBy(c) : R.sink[i].code # "schema-type-changed"

\* a returned diff with a type mismatch at a property whose later sibling
\* property was compared and gave a finding, and another with an invocation
\* that entered a pair with an empty type signature
C10_Witness ==
  /\ Done /\ ~R.threw
  /\ \E c, d \in DOMAIN R.calls :
       /\ c < d
       /\ R.calls[c].entered /\ TypeMismatch(R.calls[c].base, R.calls[c].head)
       /\ R.calls[c].parent # 0 /\ R.calls[d].parent = R.calls[c].parent
       /\ R.calls[d].entered /\ FindingsBy(d) # {}

C10_WitnessEmpty ==
  /\ Done /\ ~R.threw
  /\ \E c \in DOMAIN R.calls :
       /\ R.calls[c].entered
       /\ TypeSet(R.calls[c].base) = {} /\ TypeSet(R.calls[c].head) # {}
       /\ TypeSet(R.calls[c].head) # TypeSet(R.calls[c].base)

C10_WitnessOrder ==
  /\ Done /\ ~R.threw
  /\ \E c \in DOMAIN R.calls :
       /\ R.calls[c].entered
       /\ ~TypeMismatch(R.calls[c].base, R.calls[c].head)
       /\ Schema(R.calls[c].base).type # Schema(R.calls[c].head).type
       /\ TypeSet(R.calls[c].base) # {}

\* the set of the JSON-serialized values of the enum a schema declares, no
\* value for a schema that declares none
EnumSet(n) ==
  IF isRecord(n) /\ Schema(n).hasEnum
  THEN {JsonStringify(Schema(n).enum[i]) : i \in DOMAIN Schema(n).enum}
  ELSE {}

DeclaresEnum(n) == isRecord(n) /\ Schema(n).hasEnum

\* the schema-enum-changed findings invocation c pushed
EnumFindingsBy(c) == {i \in FindingsBy(c) : R.sink[i].code = "schema-enum-changed"}

\* the places of a chunk in a message
Places(message, chunk) == {k \in DOMAIN message : message[k] = chunk}

\* the message of an enum finding names the path and lists the removed
\* values, if any, before the added values, if any
EnumMessageOK(message, path, removed, added) ==
  /\ SubSeq(message, 1, Len(path) + 1) = <<"Enum changed at ">> \o path
  /\ Cardinality(Places(message, "removed: ")) = (IF removed # {} THEN 1 ELSE 0)
  /\ Cardinality(Places(message, "added: ")) = (IF added # {} THEN 1 ELSE 0)
  /\ \A k \in Places(message, "removed: "), l \in Places(message, "added: ") : k < l

\* C11 (as claimed): Enum change.  When at least one of the two nodes of an
\* entered pair declares an enum array, compareSchema pushes exactly one
\* breaking schema-enum-changed finding if the sets of serialized values
\* differ or only one side declares an enum, and none if the sets are
\* equal, in every context; the message lists the removed values before
\* the added values.
C11_EnumChange ==
  Done /\ ~R.threw =>
    \A c \in DOMAIN R.calls :
      R.calls[c].entered
      /\ (DeclaresEnum(R.calls[c].base) \/ DeclaresEnum(R.calls[c].head)) =>
        Cardinality(EnumFindingsBy(c))
          = IF \/ EnumSet(R.calls[c].base) # EnumSet(R.calls[c].head)
               \/ DeclaresEnum(R.calls[c].base) # DeclaresEnum(R.calls[c].head)
            THEN 1 ELSE 0

\* C11 (amended): an invocation of compareSchema that entered its pair and
\* did not stop at a type mismatch pushes exactly one breaking
\* schema-enum-changed finding if some serialized enum value of one side is
\* not a value of the other side (a side without enum has no value), and
\* none otherwise, in every context; the message names the path and lists
\* the removed values before the added values.  An invocation that did not
\* enter or stopped at a type mismatch pushes none.
C11_EnumChangeByValues ==
  Done /\ ~R.threw =>
    \A c \in DOMAIN R.calls :
      IF R.calls[c].entered /\ ~TypeMismatch(R.calls[c].base, R.calls[c].head)
      THEN /\ Cardinality(EnumFindingsBy(c))
                = IF EnumSet(R.calls[c].base) # EnumSet(R.calls[c].head) THEN 1 ELSE 0
           /\ \A i \in EnumFindingsBy(c) :
                /\ R.sink[i].severity = "breaking"
                /\ EnumMessageOK(R.sink[i].message, R.calls[c].path,
                                 EnumSet(R.calls[c].base) \ EnumSet(R.calls[c].head),
                                 EnumSet(R.calls[c].head) \ EnumSet(R.calls[c].base))
      ELSE EnumFindingsBy(c) = {}

\* a returned diff with an enum finding on a request path whose pair has
\* removed and added values
C11_Witness ==
  /\ Done /\ ~R.threw
  /\ \E c \in DOMAIN R.calls :
       /\ EnumFindingsBy(c) # {}
       /\ getSchemaContext(R.calls[c].path) = "request"
       /\ EnumSet(R.calls[c].base) \ EnumSet(R.calls[c].head) # {}
       /\ EnumSet(R.calls[c].head) \ EnumSet(R.calls[c].base) # {}

\* an entered pair with equal value sets listed in different orders, and
\* one where only one side declares an enum, which has no value
C11_WitnessEqual ==
  /\ Done /\ ~R.threw
  /\ \E c \in DOMAIN R.calls :
       /\ R.calls[c].entered /\ EnumFindingsBy(c) = {}
       /\ EnumSet(R.calls[c].base) = EnumSet(R.calls[c].head)
       /\ EnumSet(R.calls[c].base) # {}
       /\ Schema(R.calls[c].base).enum # Schema(R.calls[c].head).enum

C11_WitnessEmptyEnum ==
  /\ Done /\ ~R.threw
  /\ \E c \in DOMAIN R.calls :
       /\ R.calls[c].entered /\ ~TypeMismatch(R.calls[c].base, R.calls[c].head)
       /\ DeclaresEnum(R.calls[c].base) /\ ~DeclaresEnum(R.calls[c].head)
       /\ EnumSet(R.calls[c].base) = {}

\* the root invocation that invocation c belongs to
RECURSIVE RootOf(_)
RootOf(c) == IF R.calls[c].parent = 0 THEN c ELSE RootOf(R.calls[c].parent)

\* the invocations that entered their pair before invocation d, on the
\* root invocation of d
EnteredBefore(d) ==
  {c \in DOMAIN R.calls : c < d /\ R.calls[c].entered /\ RootOf(c) = RootOf(d)}

\* the base node or the head node of invocation d was entered before on
\* its root invocation
Revisits(d) ==
  \E c \in EnteredBefore(d) :
    R.calls[c].base = R.calls[d].base \/ R.calls[c].head = R.calls[d].head

\* C12: Cycle guard.  Within one root invocation of compareSchema each
\* (base node, head node) pair is entered at most once; an invocation whose
\* base node or head node was entered before on the same root invocation
\* pushes no finding and makes no recursive call; the visited sets are not
\* shared between root invocations: an invocation for two schemas enters
\* unless one of them was entered before on its own root invocation.
C12_CycleGuard ==
  Done =>
    /\ \A c, d \in DOMAIN R.calls :
         c < d /\ R.calls[c].entered /\ R.calls[d].entered /\ RootOf(c) = RootOf(d) =>
           <<R.calls[c].base, R.calls[c].head>> # <<R.calls[d].base, R.calls[d].head>>
    /\ \A d \in DOMAIN R.calls :
         /\ Revisits(d) =>
              /\ ~R.calls[d].entered
              /\ FindingsBy(d) = {}
              /\ \A e \in DOMAIN R.calls : R.calls[e].parent # d
         /\ R.calls[d].entered <=>
              /\ R.calls[d].base # Undefined /\ R.calls[d].head # Undefined
              /\ ~Revisits(d)

\* a diff with an invocation that met an entered node again, and with two
\* root invocations that both entered the same pair of nodes
C12_Witness ==
  /\ Done
  /\ \E d \in DOMAIN R.calls : Revisits(d) /\ ~R.calls[d].entered
  /\ \E c, d \in DOMAIN R.calls :
       /\ c < d /\ R.calls[c].parent = 0 /\ R.calls[d].parent = 0
       /\ R.calls[c].entered /\ R.calls[d].entered
       /\ R.calls[c].base = R.calls[d].base /\ R.calls[c].head = R.calls[d].head

\* ------------------------------------------------------------------------
\* The handler: notions of the claims
\* ------------------------------------------------------------------------
\* the handler has returned and this is what it answered
Answered == pc = "idle" /\ res # <<>>
Answer == res[1]

\* the calls of the store the request being handled has made
StoreCalls == SelectSeq(trace, LAMBDA s : s.step \in StoreOperations)

\* the steps the request being handled has gone through
Steps == {trace[i].step : i \in DOMAIN trace}

\* the request presents the token: in X-Report-Token, or without that
\* header in Authorization: Bearer, blanks around the token ignored
Presents(headers, token) ==
  IF headers.xReportToken # "" THEN headers.xReportToken = token
  ELSE \E scheme \in {"Bearer", "bearer", "BEARER"}, before, after \in {"", " "} :
         headers.authorization = scheme \o " " \o before \o token \o after

\* C13: a GET is answered 403 at once, without any call of the store,
\* unless the admin token is configured (not empty) and the request
\* presents it; a GET that presents the configured admin token is not
\* answered 403
C13_GetAuthorization ==
  req.method = "GET" =>
    IF env.adminToken # "" /\ Presents(req.headers, env.adminToken)
    THEN res = <<>> \/ Answer.status # 403
    ELSE Answered /\ Answer.status = 403 /\ StoreCalls = <<>> /\ Steps = {"authorize"}

\* C13: no admin token is configured and a GET that presents the valid
\* ingest token has been answered 403
C13_Witness ==
  /\ req.method = "GET" /\ env.adminToken = "" /\ env.ingestToken # ""
  /\ Presents(req.headers, env.ingestToken)
  /\ Answered /\ Answer.status = 403

\* C13: a GET that presents the admin token in Authorization: Bearer has
\* reached the store and been answered 200
C13_WitnessAllowed ==
  /\ req.method = "GET" /\ req.headers.xReportToken = ""
  /\ Answered /\ Answer.status = 200 /\ StoreCalls # <<>>

\* C13: a GET whose X-Report-Token is wrong is answered 403 although its
\* Authorization header carries the admin token
C13_WitnessHeaderWins ==
  /\ req.method = "GET" /\ env.adminToken # ""
  /\ req.headers.xReportToken # env.adminToken
  /\ req.headers.authorization = "Bearer " \o env.adminToken
  /\ Answered /\ Answer.status = 403

\* C14: with an ingest token configured, a POST that does not present it
\* is answered 403 at once: its body is not parsed, no diff is run, the
\* store is not called; otherwise a POST is not answered 403 and its body
\* is parsed
C14_PostAuthorization ==
  req.method = "POST" =>
    IF env.ingestToken # "" /\ ~Presents(req.headers, env.ingestToken)
    THEN /\ Answered /\ Answer.status = 403
         /\ Steps = {"authorize"} /\ StoreCalls = <<>>
         /\ result = <<>> /\ rendered = <<>>
    ELSE /\ res = <<>> \/ Answer.status # 403
         /\ pc = "parse" \/ "parse" \in Steps

\* C14: an ingest token is configured and a POST that presents another
\* token has been answered 403
C14_Witness ==
  /\ req.method = "POST" /\ env.ingestToken # ""
  /\ getAdminToken(req.headers) \notin {"", env.ingestToken}
  /\ Answered /\ Answer.status = 403

\* C14: no ingest token is configured and a POST without any token has
\* been answered 200
C14_WitnessOpen ==
  /\ req.method = "POST" /\ env.ingestToken = "" /\ req.headers = NoHeaders
  /\ Answered /\ Answer.status = 200

\* the call of the store the request being handled made went well
ListedOk == \E i \in DOMAIN trace : trace[i] = Step("listEntities", "ok")

\* the bodies of the POST requests answered 200 with this reportId
PostedAs(id) == {posted[i] : i \in {j \in DOMAIN posted : posted[j].reportId = id}}

\* the rows of the table with this RowKey
Stored(id) == {store[i] : i \in {j \in DOMAIN store : store[j].rowKey = id}}

\* the answer holds the report as it was answered to the POST, the
\* markdown as it was persisted
Retrieved(body, report) ==
  /\ body.id = report.reportId
  /\ body.repo = report.repo
  /\ body.summary = report.summary
  /\ body.markdown = truncateText(report.markdown).text
  /\ body.items = report.items

\* C15: a GET by id with the valid admin token that the store served is
\* answered 200 with the report (id, repo, summary, markdown, items) when a
\* POST was answered 200 with that reportId, whether or not the stored
\* texts were truncated, and 404 when no row has that id
C15_Retrievable ==
  req.method = "GET" /\ req.id # 0 /\ Answered /\ ListedOk =>
    /\ \A report \in PostedAs(req.id) :
         /\ Answer.status = 200
         /\ Retrieved(Answer.data[1], report)
    /\ Stored(req.id) = {} => Answer.status = 404

\* C15: a GET by id of a report whose stored texts were not truncated has
\* been answered 200 with the report
C15_WitnessWhole ==
  /\ req.method = "GET" /\ req.id # 0 /\ Answered /\ ListedOk
  /\ Answer.status = 200
  /\ \E report \in PostedAs(req.id) : Retrieved(Answer.data[1], report)
  /\ \E entity \in Stored(req.id) : ~entity.itemsTruncated /\ Len(Answer.data[1].items) > 0

\* C15: a GET by id of a report whose stored items text was truncated has
\* been served by the store and answered 500
C15_WitnessTruncated ==
  /\ req.method = "GET" /\ req.id # 0 /\ Answered /\ ListedOk
  /\ PostedAs(req.id) # {}
  /\ \E entity \in Stored(req.id) : entity.itemsTruncated
  /\ Answer.status = 500

\* C15: a GET by an id no row has has been answered 404
C15_WitnessAbsent ==
  /\ req.method = "GET" /\ req.id # 0 /\ Answered /\ ListedOk
  /\ Stored(req.id) = {} /\ store # <<>>
  /\ Answer.status = 404

\* the positions of the log where the step was taken with the outcome
At(step, outcome) == {i \in DOMAIN trace : trace[i] = Step(step, outcome)}

\* C16: a POST whose insert the store answered with a conflict (409) is
\* answered 200 with the report
C16_ConflictIsSuccess ==
  req.method = "POST" /\ Answered /\ At("createEntity", "conflict") # {} =>
    Answer.status = 200 /\ Answer.data # <<>>

\* C16: the store answered the creation of the table with a conflict and
\* the request went on to a 200
C16_WitnessTableConflict ==
  Answered /\ At("createTable", "conflict") # {} /\ Answer.status = 200

\* C16: the store answered the insert with a conflict, the row is in the
\* table and the POST has been answered 500
C16_WitnessInsertConflict ==
  /\ req.method = "POST" /\ Answered /\ At("createEntity", "conflict") # {}
  /\ store # <<>> /\ Answer.status = 500

\* a base or head value that is no usable document: missing, not a map
\* once loaded, text no parser takes, or YAML text without a YAML parser
BadSpec(value, yaml) ==
  \/ value.kind \in {"undefined", "jsonArray", "yamlScalar", "garbage"}
  \/ value.kind = "yaml" /\ ~yaml

\* C17: an authorized POST whose base or head is no usable document is
\* answered 400 and calls the store not once
C17_BadSpecsAre400 ==
  /\ req.method = "POST" /\ Answered /\ "parse" \in Steps
  /\ BadSpec(req.body.base, env.yaml) \/ BadSpec(req.body.head, env.yaml)
  => Answer.status = 400 /\ StoreCalls = <<>>

\* C17: a POST whose head is missing has been answered 400
C17_WitnessMissing ==
  /\ req.method = "POST" /\ Answered /\ req.body.head.kind = "undefined"
  /\ Answer.status = 400 /\ StoreCalls = <<>>

\* C17: a POST whose head is YAML text has been answered 500 where no YAML
\* parser is available
C17_WitnessYamlUnavailable ==
  /\ req.method = "POST" /\ Answered /\ "parse" \in Steps
  /\ req.body.head.kind = "yaml" /\ ~env.yaml
  /\ Answer.status = 500

\* C17: a POST whose head is text that no parser takes has been answered
\* 500 where a YAML parser is available
C17_WitnessUnparseable ==
  /\ req.method = "POST" /\ Answered /\ "parse" \in Steps
  /\ req.body.head.kind = "garbage" /\ env.yaml
  /\ Answer.status = 500

\* C18: while a request other than a GET is handled, every call of the
\* store comes after diffSpecs has returned and the markdown and the items
\* text have been made, in that order; the insert is issued at most once;
\* and a request answered 400, 403 or 405 has not called the store
C18_StoreAfterDiff ==
  req.method # "GET" =>
    /\ \A i \in DOMAIN trace :
         trace[i].step \in StoreOperations =>
           \E j, k \in 1..(i - 1) :
             j < k /\ trace[j] = Step("diff", "ok") /\ trace[k] = Step("render", "ok")
    /\ Cardinality({i \in DOMAIN trace : trace[i].step = "createEntity"}) <= 1
    /\ Answered /\ Answer.status \in {400, 403, 405} => StoreCalls = <<>>

\* C18: a POST has been answered 200 after the table was created and the
\* entity inserted, both after the diff and the rendering
C18_Witness ==
  /\ req.method = "POST" /\ Answered /\ Answer.status = 200
  /\ [i \in DOMAIN trace |-> trace[i].step]
       = <<"authorize", "parse", "diff", "render", "createTable", "createEntity">>

\* C18: a request has been answered 405 without a call of the store
C18_WitnessNotAllowed ==
  Answered /\ Answer.status = 405 /\ StoreCalls = <<>>

\* ------------------------------------------------------------------------
\* The texts of a report: notions of the claims
\* ------------------------------------------------------------------------
\* out is what the claim says truncateText gives for the text
Truncation(text, out) ==
  /\ Len(out.text) <= 60000
  /\ out.truncated <=> Len(text) > 60000
  /\ IF out.truncated
     THEN /\ Len(out.text) = 60000
          /\ SubSeq(out.text, 59998, 60000) = "..."
          /\ SubSeq(out.text, 1, 59997) = SubSeq(text, 1, 59997)
     ELSE out.text = text

\* C19: the markdownResult and the itemsResult of every report are what
\* the claim says of truncateText for the markdown and for the JSON text
\* of the items (at most 60,000 long; truncated exactly when the input is
\* longer, then 60,000 long, ending with "..." after the first 59,997
\* characters of the input; else the input), and the markdown and items
\* fields of every row are these results
C19_TruncationBound ==
  rendered # <<>> =>
    /\ Truncation(rendered[1].markdown, rendered[1].markdownResult)
    /\ Truncation(JsonItems(R.returned[1].items), rendered[1].itemsResult)
    /\ \A i \in DOMAIN store :
         /\ store[i].markdown = rendered[1].markdownResult.text
         /\ store[i].markdownTruncated = rendered[1].markdownResult.truncated
         /\ store[i].items = rendered[1].itemsResult.text
         /\ store[i].itemsTruncated = rendered[1].itemsResult.truncated

\* C19: a markdown of 60,001 characters has been truncated and persisted
C19_Witness ==
  /\ rendered # <<>> /\ Len(rendered[1].markdown) = 60001
  /\ rendered[1].markdownResult.truncated
  /\ store # <<>> /\ store[1].markdownTruncated /\ Len(store[1].markdown) = 60000

\* C19: a markdown of exactly 60,000 characters has been persisted whole,
\* beside an items text that was truncated
C19_WitnessLimit ==
  /\ rendered # <<>> /\ Len(rendered[1].markdown) = 60000
  /\ ~rendered[1].markdownResult.truncated
  /\ store # <<>> /\ store[1].markdown = rendered[1].markdown /\ store[1].itemsTruncated

\* C19: an items text of exactly 60,000 characters has been kept whole
C19_WitnessItemsLimit ==
  /\ rendered # <<>> /\ Len(JsonItems(R.returned[1].items)) = 60000
  /\ ~rendered[1].itemsResult.truncated

\* the messages of the findings of one severity, in items order
Messages(items, severity) ==
  [i \in DOMAIN SelectSeq(items, LAMBDA item : item.severity = severity) |->
     Concat(SelectSeq(items, LAMBDA item : item.severity = severity)[i].message)]

\* the section of the claim: nothing without finding, else a blank line, a
\* heading with the count and one line for each message
Heading(title, count) == "### " \o title \o " (" \o Decimal(count) \o ")"

Layout(title, count, messages) ==
  IF messages = <<>> THEN <<>>
  ELSE <<"", Heading(title, count)>> \o [i \in DOMAIN messages |-> "- " \o messages[i]]

\* the text of the claim for a report, the counts taken from the summary
Expected(report) ==
  <<"## TrueSpec Summary", "",
    "- Breaking: " \o Decimal(report.summary.breaking),
    "- Warning: " \o Decimal(report.summary.warning),
    "- Info: " \o Decimal(report.summary.info)>>
  \o (IF report.items = <<>> THEN <<"", "No differences found.">>
      ELSE Layout("Breaking", report.summary.breaking, Messages(report.items, "breaking"))
           \o Layout("Warning", report.summary.warning, Messages(report.items, "warning"))
           \o Layout("Info", report.summary.info, Messages(report.items, "info")))

\* C20: the markdown of every report is the lines of the claim joined by
\* line feeds: the title, a blank line, the three counts, then either a
\* blank line and 'No differences found.' or the sections of the
\* severities that have findings, in the order breaking, warning, info,
\* each headed by its summary count, which is the number of its message
\* lines, the messages in items order
C20_MarkdownLayout ==
  rendered # <<>> =>
    /\ rendered[1].markdown = JoinText(Expected(R.returned[1]), "\n")
    /\ \A severity \in {"breaking", "warning", "info"} :
         R.returned[1].summary[severity] = Len(Messages(R.returned[1].items, severity))

\* C20: a report with breaking and warning findings, two of them of one
\* severity, has been rendered
C20_Witness ==
  /\ rendered # <<>>
  /\ R.returned[1].summary.breaking >= 2
  /\ R.returned[1].summary.warning >= 1
  /\ R.returned[1].items[1].severity # "breaking"

\* C20: a report without findings has been rendered
C20_WitnessEmpty ==
  /\ rendered # <<>> /\ R.returned[1].items = <<>>
  /\ rendered[1].markdown
       = "## TrueSpec Summary\n\n- Breaking: 0\n- Warning: 0\n- Info: 0\n\nNo differences found."

\* C20: a report with findings of the three severities has been rendered
C20_WitnessThree ==
  /\ rendered # <<>>
  /\ \A severity \in {"breaking", "warning", "info"} : R.returned[1].summary[severity] >= 1

\* ---- C21 ----

\* the handlers in flight that have run a diff that returned
Diffed == {c \in DOMAIN inflight : /\ inflight[c].report # <<>>
                                   /\ ~inflight[c].report[1].threw}

Invocations == {i \in DOMAIN attempts : attempts[i] # "unavailable"}

\* the handlers that wait for the promise of ensureTable
Awaiting == {c \in DOMAIN inflight : inflight[c].pc = "awaiting"}

\* C24: across the interleavings of the requests of one process,
\* createTable is invoked at most once: while it is not answered every
\* caller of ensureTable waits for the one promise the first caller stored,
\* and after it succeeded or answered 409 the promise is resolved and no
\* request invokes it again.
C24_SingleFlight ==
  /\ Cardinality(Invocations) <= 1
  /\ (Awaiting # {} /\ tableReady = "pending") => attempts = <<"pending">>
  /\ (attempts # <<>> /\ attempts[1] \in {"ok", "conflict"})
       => (Len(attempts) = 1 /\ tableReady = "resolved")

\* C24: two handlers wait for the promise while createTable is not
\* answered: the first found none stored, the second found the first's.
C24_Witness ==
  /\ attempts = <<"pending">>
  /\ \E c, d \in Awaiting : inflight[c].found = "unset" /\ inflight[d].found = "pending"

\* C24: createTable answered 409 and a request that came later has gone on
\* to the store.
C24_WitnessConflict ==
  /\ attempts = <<"conflict">>
  /\ \E c \in DOMAIN inflight : inflight[c].found = "resolved" /\ inflight[c].pc = "proceeded"

\* ---- C25 ----

\* C25: once the first attempt of ensureTable has failed with another
\* error than 409 (no connection string, store out of reach), the rejected
\* promise stays stored: no attempt follows it, and no handler that needs
\* the store goes on, each is answered 500.
C25_StickyFailure ==
  (attempts # <<>> /\ attempts[1] \in {"error", "unavailable"})
    => /\ tableReady = "rejected"
       /\ Len(attempts) = 1
       /\ \A c \in DOMAIN inflight :
            /\ inflight[c].pc # "proceeded"
            /\ inflight[c].found = "rejected" => inflight[c].pc \in {"awaiting", "failed"}

\* C25: createTable failed, and a request that came later, when the store
\* could be set up again, was answered 500.
C25_Witness ==
  /\ attempts = <<"error">>
  /\ \E c \in DOMAIN inflight :
       /\ inflight[c].found = "rejected"
       /\ inflight[c].available
       /\ inflight[c].pc = "failed"

\* C25: the connection string was missing at the first call, and a request
\* that came when it was there was answered 500.
C25_WitnessUnavailable ==
  /\ attempts = <<"unavailable">>
  /\ \E c \in DOMAIN inflight :
       /\ inflight[c].found = "rejected"
       /\ inflight[c].available
       /\ inflight[c].pc = "failed"

\* ---- C22 ----

\* the writes of the diff that returned, in their order
Effects == Writes(R.calls)

C22_WitnessMerge ==
  /\ Done /\ ~R.threw
  /\ \E i \in DOMAIN Effects :
       /\ Effects[i].from = Made
       /\ i + 1 \in DOMAIN Effects
       /\ Effects[i + 1].from = Member(12, "props")
       /\ Len(Effects[i + 1].value) = 2

\* C22: a diff returned that sorted the values of an enum that is not in
\* sorted order.
C22_WitnessEnum ==
  /\ Done /\ ~R.threw
  /\ \E i \in DOMAIN Effects : /\ Effects[i].from = Member(14, "enum")
                                /\ Effects[i].value # EnumValues[14].values

\* ---- C23 ----

\* invocation d is invocation c or was made, directly or not, by c
RECURSIVE Within(_, _)
Within(c, d) == d # 0 /\ (d = c \/ Within(c, R.calls[d].parent))

\* the invocation made by c that d is or was made by
RECURSIVE ChildOf(_, _)
ChildOf(c, d) == IF R.calls[d].parent = c THEN d ELSE ChildOf(c, R.calls[d].parent)

\* the findings of the sink pushed by c or by an invocation within c
Pushed(c) == {i \in DOMAIN R.sink : Within(c, R.src[i])}

\* the step of compareSchema that pushes a finding of a code
CodeStep(code) ==
  CASE code \in {"schema-nullable-removed", "schema-nullable-added"} -> 1
    [] code = "schema-type-changed" -> 2
    [] code = "schema-union-removed" -> 3
    [] code = "schema-union-added" -> 4
    [] code = "schema-enum-changed" -> 5
    [] code = "schema-required-added" -> 7
    [] code = "schema-field-removed" -> 8
    [] code = "schema-field-added" -> 9

\* the step of invocation c that finding i of Pushed(c) comes from: a
\* finding of the recursion into items (path of c followed by "[]") is of
\* step 6, one of the recursion into a property of step 8
StepOf(c, i) ==
  IF R.src[i] = c THEN CodeStep(R.sink[i].code)
  ELSE IF Len(R.calls[ChildOf(c, R.src[i])].path) = Len(R.calls[c].path) + 1 THEN 6
  ELSE 8

\* the base property a finding of step 8 is about, and its place among
\* the base properties
KeyOf(c, i) ==
  IF R.src[i] = c THEN R.sink[i].message[Len(R.sink[i].message)]
  ELSE R.calls[ChildOf(c, R.src[i])].seg

Place(c, key) ==
  CHOOSE k \in DOMAIN ObjectShape[R.calls[c].base].properties :
    ObjectShape[R.calls[c].base].properties[k][1] = key

\* C23: the findings one compareSchema invocation appends, those of its
\* recursions at the point of the recursion, follow the step order
\* nullability, type change, union removed, union added, enum change, items
\* recursion, required-added, then per base property in base order its
\* field-removed finding or the findings of its recursion, then
\* field-added; they are next to each other in the sink, none after the
\* other moved or removed.
C23_FindingOrder ==
  Done =>
    /\ Len(R.src) = Len(R.sink)
    /\ ~R.threw => R.returned[1].items = R.sink
    /\ \A c \in DOMAIN R.calls :
         \A i, j \in Pushed(c) :
           i < j => /\ \A k \in i..j : k \in Pushed(c)
                    /\ StepOf(c, i) <= StepOf(c, j)
                    /\ (StepOf(c, i) = 8 /\ StepOf(c, j) = 8)
                         => Place(c, KeyOf(c, i)) <= Place(c, KeyOf(c, j))

\* the steps of invocation c that pushed findings
StepsOf(c) == {StepOf(c, i) : i \in Pushed(c)}

\* C23: an invocation with findings of its steps nullability,
\* required-added, field-removed and field-added, and between them the
\* findings of its recursions into items and into a property.
C23_Witness ==
  /\ Done /\ ~R.threw
  /\ \E c \in DOMAIN R.calls :
       /\ {1, 6, 7, 8, 9} \subseteq StepsOf(c)
       /\ \E i, j \in Pushed(c) : /\ R.src[i] = c /\ R.src[j] # c
                                  /\ StepOf(c, i) = 8 /\ StepOf(c, j) = 8

\* C23: an invocation with findings of its steps union removed, union
\* added.
C23_WitnessUnions ==
  /\ Done /\ ~R.threw
  /\ \E c \in DOMAIN R.calls : {3, 4} \subseteq StepsOf(c)

====
